---- MODULE Spec2Model ----
(***************************************************************************)
(* Model of the solitaire Yahtzee solver (src/solver/solver.py) together   *)
(* with the dice rolls it works on (src/solver/roll.py, multiset.py).      *)
(*                                                                         *)
(* A roll is the frequency array of its multiset: a sequence of length     *)
(* `sides` whose i-th entry is the number of dice showing i.  An anchor is *)
(* the tuple <<yahtzee, upper, used>>.  A rule set ("game") is a record   *)
(* holding the constructor parameter ub_level, the dice geometry, the     *)
(* list of categories and the roll lists precomputed by __init__.          *)
(*                                                                         *)
(* Values of the table are exact fixed-point numbers: the integer v        *)
(* stands for v / One(game), and One(game) is chosen so that every         *)
(* division by num_sides performed by the solver is exact.                 *)
(***************************************************************************)
EXTENDS Integers, Sequences, FiniteSets, TLC

(***************************************************************************)
(* Bounds of the model                                                     *)
(***************************************************************************)
MaxThresh == 3      \* ub_level (--thresh) ranges over 1..MaxThresh
PlaySides == 2      \* sides of the dice in the rule set that is played
MaxDice == 2        \* dice of the truncated rule sets that are solved
MaxSides == 2       \* sides of the truncated rule sets that are solved
MaxSeeds == 1       \* pre-solved slots of a seed table
MaxRot == 2         \* rotations of the enumeration order inside a maximisation
TextThresh == 11    \* ub_level of the rule set whose anchors are written as text
RollSides == 4      \* sides of the rolls the DiceRoll methods are called on
RollDice == 3       \* dice of the rolls the DiceRoll methods are called on
MaxCap == 2         \* capacity n of the Multiset objects
MaxElems == 3       \* elements a Multiset object is grown to
DiceSides == 2      \* sides of the DiceRoll objects
DiceCount == 2      \* dice a DiceRoll object holds at most
MaxFace == 2        \* faces the dice of the environment show
FreeTurns == 1      \* turns of a game in which the dice show any of these faces
MaxPick == 1        \* unmarked categories a player chooses among
MaxPlayers == 2     \* players of a YahtzeeEnv
MaxMarked == 2      \* turns of a game scored by the environment and the solver

(***************************************************************************)
(* Program constants                                                       *)
(***************************************************************************)
UNUSED == 0
ZERO == 1
NONZERO == 2

UbValue == 35
FhValue == 25
SsValue == 30
LsValue == 40
YValue == 50
YBonus == 100
UbSlot == 13
YbSlot == 14
StandardDice == 5
Rerolls == 2
MaxInt == 2 * 1073741823 + 1    \* the largest integer of the arithmetic
NaN == -1
EnvSides == 6
EnvDice == 5
NumCategories == 13
NoScore == -1                   \* None on the scoresheet
THREE_KIND == 6
FOUR_KIND == 7
FULL_HOUSE == 8
SMALL_STRAIGHT == 9
LARGE_STRAIGHT == 10
CHANCE == 11
YAHTZEE == 12
THRESHOLD == 63                 \* config.THRESHOLD
N_KIND_OUTPUT_INDEX == 6        \* config: the meta-action after the six upper ones
FH_OUTPUT_INDEX == 7
STRAIGHT_OUTPUT_INDEX == 8
CHANCE_OUTPUT_INDEX == 9
OUTPUT_SIZE == 10               \* config: the number of meta-actions

(***************************************************************************)
(* Multiset / DiceRoll                                                     *)
(***************************************************************************)
RECURSIVE SumSeq(_)
SumSeq(s) == IF s = <<>> THEN 0 ELSE Head(s) + SumSeq(Tail(s))

RECURSIVE Pow(_, _)
Pow(b, e) == IF e = 0 THEN 1 ELSE b * Pow(b, e - 1)

\* Multiset.__init__: the frequency array [0] * n
RECURSIVE Multiset(_)
Multiset(n) == IF n = 0 THEN <<>> ELSE Append(Multiset(n - 1), 0)

\* DiceRoll.__init__: an empty multiset, then one add per listed number
RECURSIVE DiceRoll(_, _)
DiceRoll(pips, sides) ==
    IF pips = <<>> THEN Multiset(sides)
    ELSE LET rest == DiceRoll(Tail(pips), sides)
         IN  [rest EXCEPT ![Head(pips)] = @ + 1]

size(roll) == SumSeq(roll)

count(roll, num) == IF num < 1 \/ num > Len(roll) THEN 0 ELSE roll[num]

min_number(roll) ==
    IF size(roll) = 0 THEN Len(roll) + 1
    ELSE CHOOSE n \in 1..Len(roll) :
            roll[n] > 0 /\ \A m \in 1..(n - 1) : roll[m] = 0

max_number(roll) ==
    IF size(roll) = 0 THEN 0
    ELSE CHOOSE n \in 1..Len(roll) :
            roll[n] > 0 /\ \A m \in (n + 1)..Len(roll) : roll[m] = 0

total(roll) == SumSeq([i \in 1..Len(roll) |-> i * roll[i]])

add_one(roll, num) == [roll EXCEPT ![num] = @ + 1]

subroll(keep, roll) ==
    Len(keep) = Len(roll) /\ \A i \in 1..Len(keep) : count(roll, i) >= keep[i]

\* the ranges one short: 0..count(i) - 1
RECURSIVE SubrollTails_short(_, _)
SubrollTails_short(roll, i) ==
    IF i > Len(roll) THEN << <<>> >>
    ELSE LET tails == SubrollTails_short(roll, i + 1)
             n == Len(tails)
         IN  [k \in 1..(roll[i] * n) |-> <<(k - 1) \div n>> \o tails[((k - 1) % n) + 1]]

\* itertools.product of the ranges 0..count(i), for the faces from i on
RECURSIVE SubrollTails(_, _)
SubrollTails(roll, i) ==
    IF i > Len(roll) THEN << <<>> >>
    ELSE LET tails == SubrollTails(roll, i + 1)
             n == Len(tails)
         IN  [k \in 1..((roll[i] + 1) * n) |-> <<(k - 1) \div n>> \o tails[((k - 1) % n) + 1]]

all_subrolls(roll) == SubrollTails(roll, 1)

\* itertools.combinations_with_replacement(range(lo, sides + 1), n), in order
RECURSIVE Combinations(_, _, _)
Combinations(lo, sides, n) ==
    IF n = 0 THEN << <<>> >>
    ELSE IF lo > sides THEN <<>>
    ELSE LET with == Combinations(lo, sides, n - 1)
         IN  [i \in 1..Len(with) |-> <<lo>> \o with[i]] \o Combinations(lo + 1, sides, n)

RollsOfSize(n, sides) ==
    LET combos == Combinations(1, sides, n)
    IN  [i \in 1..Len(combos) |-> DiceRoll(combos[i], sides)]

RECURSIVE PartialRollsFrom(_, _)
PartialRollsFrom(n, sides) ==
    IF n < 0 THEN <<>> ELSE RollsOfSize(n, sides) \o PartialRollsFrom(n - 1, sides)

\* the lists __init__ precomputes, for every dice geometry of the model
MaxOf(a, b) == IF a > b THEN a ELSE b

Geometries == (1..MaxOf(StandardDice, MaxDice)) \X (1..MaxOf(PlaySides, MaxSides))

\* (f @@ <<>> is f, written out as a table once)
complete_roll_list == [d \in Geometries |-> RollsOfSize(d[1], d[2])] @@ <<>>

partial_roll_list == [d \in Geometries |-> PartialRollsFrom(d[1] - 1, d[2])] @@ <<>>

(***************************************************************************)
(* Category combinators.  A scoring function returns the successor anchor  *)
(* and the points dictionary (a function from slot to points).             *)
(***************************************************************************)
RECURSIVE SetSum(_, _)
SetSum(f, S) == IF S = {} THEN 0
                ELSE LET x == CHOOSE y \in S : TRUE IN f[x] + SetSum(f, S \ {x})

mark_used(anchor_tuple, roll, cat) ==
    <<anchor_tuple[1], anchor_tuple[2], anchor_tuple[3] + Pow(2, cat)>>

is_yahtzee(roll) == count(roll, min_number(roll)) = size(roll)

mark_yahtzee(anchor_tuple, roll, cat) ==
    <<IF is_yahtzee(roll) THEN NONZERO ELSE ZERO, anchor_tuple[2], anchor_tuple[3]>>

upper(num, anchor_tuple, roll, cat) ==
    [succ |-> mark_used(anchor_tuple, roll, cat), points |-> (cat :> count(roll, num) * num)]

\* upper_bonus without the min: the upper total is not clamped
upper_bonus_uncapped(ub_level, ub_value, ub_slot, inner, anchor_tuple, cat) ==
    LET up == anchor_tuple[2]
        points == IF up < ub_level /\ up + inner.points[cat] >= ub_level
                  THEN (ub_slot :> ub_value) @@ inner.points
                  ELSE inner.points
    IN  [succ |-> <<inner.succ[1], up + inner.points[cat], inner.succ[3]>>, points |-> points]

\* upper_bonus without the test upper < ub_level: the bonus is awarded again
upper_bonus_again(ub_level, ub_value, ub_slot, inner, anchor_tuple, cat) ==
    LET up == anchor_tuple[2]
        points == IF up + inner.points[cat] >= ub_level
                  THEN (ub_slot :> ub_value) @@ inner.points
                  ELSE inner.points
        capped == IF up + inner.points[cat] < ub_level THEN up + inner.points[cat]
                  ELSE ub_level
    IN  [succ |-> <<inner.succ[1], capped, inner.succ[3]>>, points |-> points]

upper_bonus(ub_level, ub_value, ub_slot, inner, anchor_tuple, cat) ==
    LET up == anchor_tuple[2]
        points == IF up < ub_level /\ up + inner.points[cat] >= ub_level
                  THEN (ub_slot :> ub_value) @@ inner.points
                  ELSE inner.points
        capped == IF up + inner.points[cat] < ub_level THEN up + inner.points[cat]
                  ELSE ub_level
    IN  [succ |-> <<inner.succ[1], capped, inner.succ[3]>>, points |-> points]

is_n_kind(roll, n) == \E x \in 1..Len(roll) : roll[x] > 0 /\ count(roll, x) >= n

n_kind(n, anchor_tuple, roll, cat) ==
    [succ |-> mark_used(anchor_tuple, roll, cat),
     points |-> (cat :> IF is_n_kind(roll, n) THEN total(roll) ELSE 0)]

yahtzee_category(y_value, anchor_tuple, roll, cat) ==
    [succ |-> mark_yahtzee(anchor_tuple, roll, cat),
     points |-> (cat :> IF is_n_kind(roll, StandardDice)
                        THEN (IF is_yahtzee(roll) THEN y_value ELSE 0)
                        ELSE 0)]

\* the loop of is_straight from index i with the running length run
RECURSIVE StraightScan(_, _, _, _)
StraightScan(counts, length, i, run) ==
    IF i > Len(counts) THEN FALSE
    ELSE IF counts[i] = 0 THEN StraightScan(counts, length, i + 1, 0)
    ELSE IF run + 1 = length THEN TRUE
    ELSE StraightScan(counts, length, i + 1, run + 1)

is_straight(roll, length) ==
    IF length = 1 THEN size(roll) >= 1
    ELSE LET lo == min_number(roll)
             hi == max_number(roll)
             counts == [i \in 1..(IF hi >= lo THEN hi - lo + 1 ELSE 0) |-> count(roll, lo + i - 1)]
         IN  IF Len(counts) < length THEN FALSE
             ELSE StraightScan(counts, length, 2, 1)

straight(length, value, anchor_tuple, roll, cat) ==
    [succ |-> mark_used(anchor_tuple, roll, cat),
     points |-> (cat :> IF is_straight(roll, length) THEN value ELSE 0)]

\* a pair and a triple, as on five dice
is_full_house_pair_and_triple(roll) ==
    LET min_count == count(roll, min_number(roll))
        max_count == count(roll, max_number(roll))
    IN  {min_count, max_count} = {2, 3} /\ min_count + max_count = size(roll)

is_full_house(roll) ==
    LET min_count == count(roll, min_number(roll))
        max_count == count(roll, max_number(roll))
    IN  min_count + max_count = size(roll) /\ min_count > 1 /\ max_count > 1

full_house(value, anchor_tuple, roll, cat) ==
    [succ |-> mark_used(anchor_tuple, roll, cat),
     points |-> (cat :> IF is_full_house(roll) THEN value ELSE 0)]

\* bit test (used & (1 << index)) != 0
BitSet(used, index) == (used \div Pow(2, index)) % 2 = 1

free_joker_allowed(upper_cats, value, inner, anchor_tuple, roll, cat) ==
    IF anchor_tuple[1] = UNUSED \/ ~is_yahtzee(roll) THEN inner
    ELSE IF BitSet(anchor_tuple[3], upper_cats[min_number(roll)])
         THEN [succ |-> mark_used(anchor_tuple, roll, cat), points |-> (cat :> value)]
         ELSE [succ |-> mark_used(anchor_tuple, roll, cat), points |-> (cat :> 0)]

\* yahtzee_bonus that accepts a Yahtzee scored as zero
yahtzee_bonus_any_used(value, inner, yb_slot, anchor_tuple, roll) ==
    IF anchor_tuple[1] /= UNUSED /\ is_yahtzee(roll)
    THEN [succ |-> inner.succ, points |-> (yb_slot :> value) @@ inner.points]
    ELSE inner

yahtzee_bonus(value, inner, yb_slot, anchor_tuple, roll) ==
    IF anchor_tuple[1] = NONZERO /\ is_yahtzee(roll)
    THEN [succ |-> inner.succ, points |-> (yb_slot :> value) @@ inner.points]
    ELSE inner

(***************************************************************************)
(* Rule sets                                                               *)
(***************************************************************************)
Upper(n) == [kind |-> "upper", n |-> n]
NKind(n) == [kind |-> "n_kind", n |-> n]
FullHouse == [kind |-> "full_house", n |-> 0]
Straight(n) == [kind |-> "straight", n |-> n]
YahtzeeCat == [kind |-> "yahtzee", n |-> StandardDice]

\* the category list of StandardYahtzee.__init__, one upper category per face
StandardCategories(sides) ==
    [i \in 1..sides |-> Upper(i)]
        \o <<NKind(3), NKind(4), FullHouse, Straight(4), Straight(5), NKind(1), YahtzeeCat>>

\* int(math.log2(ub_level)) + 1
RECURSIVE upper_total_bits(_)
upper_total_bits(ub_level) == IF ub_level <= 1 THEN 1 ELSE 1 + upper_total_bits(ub_level \div 2)

MakeGame(ub_level, dice, sides, categories) ==
    [ub_level |-> ub_level,
     upper_total_bits |-> upper_total_bits(ub_level),
     num_dice |-> dice,
     num_sides |-> sides,
     categories |-> categories]

StandardYahtzee(ub_level, sides) ==
    MakeGame(ub_level, StandardDice, sides, StandardCategories(sides))

num_categories(game) == Len(game.categories)

complete_rolls(game) == complete_roll_list[<<game.num_dice, game.num_sides>>]

partial_rolls(game) == partial_roll_list[<<game.num_dice, game.num_sides>>]

\* categories are numbered from 0 as in the program
categories(game, cat, anchor_tuple, roll) ==
    LET c == game.categories[cat + 1]
        upper_cats == [f \in 1..game.num_sides |-> f - 1]
        inner ==
            CASE c.kind = "upper" ->
                    upper_bonus(game.ub_level, UbValue, UbSlot,
                                upper(c.n, anchor_tuple, roll, cat), anchor_tuple, cat)
              [] c.kind = "n_kind" -> n_kind(c.n, anchor_tuple, roll, cat)
              [] c.kind = "full_house" ->
                    free_joker_allowed(upper_cats, FhValue,
                                       full_house(FhValue, anchor_tuple, roll, cat),
                                       anchor_tuple, roll, cat)
              [] c.kind = "straight" ->
                    LET value == IF c.n = 4 THEN SsValue ELSE LsValue
                    IN  free_joker_allowed(upper_cats, value,
                                           straight(c.n, value, anchor_tuple, roll, cat),
                                           anchor_tuple, roll, cat)
              [] c.kind = "yahtzee" -> yahtzee_category(YValue, anchor_tuple, roll, cat)
    IN  yahtzee_bonus(YBonus, inner, YbSlot, anchor_tuple, roll)

update(game, anchor_tuple, roll, cat) ==
    LET r == categories(game, cat, anchor_tuple, roll)
    IN  [succ |-> r.succ, score |-> SetSum(r.points, DOMAIN r.points), points |-> r.points]

find_category_Y(game) == num_categories(game) - 1

\* unused_category_list with the Yahtzee category appended instead of prepended
unused_categories_y_last(game, anchor_tuple) ==
    SelectSeq([i \in 1..(num_categories(game) - 1) |-> i - 1],
              LAMBDA x : ~BitSet(anchor_tuple[3], x))
        \o (IF anchor_tuple[1] = UNUSED THEN <<find_category_Y(game)>> ELSE <<>>)

\* the list stored in unused_category_list[(yahtzee, used)]
unused_categories(game, anchor_tuple) ==
    (IF anchor_tuple[1] = UNUSED THEN <<find_category_Y(game)>> ELSE <<>>)
        \o SelectSeq([i \in 1..(num_categories(game) - 1) |-> i - 1],
                     LAMBDA x : ~BitSet(anchor_tuple[3], x))

is_terminal_anchor(game, tup) ==
    tup[1] /= UNUSED /\ tup[3] = Pow(2, num_categories(game) - 1) - 1

is_used_by_index(game, tup, index) ==
    IF index >= 0 /\ index < num_categories(game) - 1
    THEN (tup[3] \div Pow(2, index)) % 2 > 0
    ELSE tup[1] /= UNUSED

Range(s) == {s[i] : i \in 1..Len(s)}

(***************************************************************************)
(* Anchors and their indices                                               *)
(***************************************************************************)
maximum_index(g) == 3 * Pow(2, num_categories(g) - 1 + g.upper_total_bits) - 1

maximum_tuple(g) == <<NONZERO, g.ub_level, Pow(2, num_categories(g) - 1) - 1>>

tuple_to_index(g, tup) ==
    tup[1] * Pow(2, num_categories(g) - 1 + g.upper_total_bits)
        + tup[2] * Pow(2, num_categories(g) - 1) + tup[3]

AnchorTuples(g) ==
    (0..maximum_tuple(g)[1]) \X (0..maximum_tuple(g)[2]) \X (0..maximum_tuple(g)[3])

AnchorCount(g) ==
    (maximum_tuple(g)[1] + 1) * (maximum_tuple(g)[2] + 1) * (maximum_tuple(g)[3] + 1)

\* the product iterated with ascending ranges
ProductTuple_ascending(g, k) ==
    LET m == maximum_tuple(g)
    IN  <<k \div ((m[2] + 1) * (m[3] + 1)),
          (k \div (m[3] + 1)) % (m[2] + 1),
          k % (m[3] + 1)>>

\* the k-th tuple (from 0) of itertools.product(*ranges), ranges descending
ProductTuple(g, k) ==
    LET m == maximum_tuple(g)
    IN  <<m[1] - (k \div ((m[2] + 1) * (m[3] + 1))),
          m[2] - ((k \div (m[3] + 1)) % (m[2] + 1)),
          m[3] - (k % (m[3] + 1))>>

terminal_value(g, tup) == 0

(***************************************************************************)
(* solve_component                                                         *)
(***************************************************************************)
\* the unit of the fixed-point values of a rule set
One(g) == Pow(g.num_sides, g.num_dice * (Rerolls + 1) * num_categories(g))

IsNaN(v) == v = NaN

Plus(v, w) == IF IsNaN(v) \/ IsNaN(w) THEN NaN ELSE v + w

\* max with the comparison turned around
RECURSIVE MaxFrom_flipped(_, _, _)
MaxFrom_flipped(s, i, best) ==
    IF i > Len(s) THEN best
    ELSE MaxFrom_flipped(s, i + 1,
                         IF ~IsNaN(s[i]) /\ ~IsNaN(best) /\ s[i] < best THEN s[i] ELSE best)

\* Python's max over a non-empty list: a later item wins only if it compares greater
RECURSIVE MaxFrom(_, _, _)
MaxFrom(s, i, best) ==
    IF i > Len(s) THEN best
    ELSE MaxFrom(s, i + 1, IF ~IsNaN(s[i]) /\ ~IsNaN(best) /\ s[i] > best THEN s[i] ELSE best)

\* the first item offered is taken
max_first(s) == s[1]

max(s) == MaxFrom(s, 2, s[1])

\* the iteration with the complete rolls of a tier ahead of its partial rolls
PositionList_complete_first(complete, partial) ==
    LET middle == complete \o partial
    IN  [i \in 1..Len(complete) |-> <<0, complete[i]>>]
        \o [i \in 1..(Rerolls * Len(middle)) |->
              <<1 + ((i - 1) \div Len(middle)), middle[((i - 1) % Len(middle)) + 1]>>]
        \o [i \in 1..Len(partial) |-> <<Rerolls + 1, partial[i]>>]

\* the chained iteration of positions in solve_component
PositionList(complete, partial) ==
    LET middle == partial \o complete
    IN  [i \in 1..Len(complete) |-> <<0, complete[i]>>]
        \o [i \in 1..(Rerolls * Len(middle)) |->
              <<1 + ((i - 1) \div Len(middle)), middle[((i - 1) % Len(middle)) + 1]>>]
        \o [i \in 1..Len(partial) |-> <<Rerolls + 1, partial[i]>>]

position_list ==
    [d \in Geometries |-> PositionList(complete_roll_list[d], partial_roll_list[d])] @@ <<>>

Positions(g) == position_list[<<g.num_dice, g.num_sides>>]

dice_action_filter(g, anchor_tuple, roll, rerolls) == all_subrolls(roll)

category_action_filter(g, anchor_tuple, roll) == unused_categories(g, anchor_tuple)

\* the key looked up for a kept subroll of a complete roll
KeepKey(g, rerolls, keep) ==
    <<IF size(keep) = g.num_dice THEN rerolls - 1 ELSE rerolls, keep>>

\* the key looked up for one more die on a partial roll
AddKey(g, rerolls, roll, x) ==
    <<IF size(roll) = g.num_dice - 1 THEN rerolls - 1 ELSE rerolls, add_one(roll, x)>>

\* the keys of component_values a position reads
ComponentReads(g, anchor_tuple, position) ==
    LET rerolls == position[1]
        roll == position[2]
    IN  IF rerolls = 0 THEN {}
        ELSE IF size(roll) = g.num_dice
        THEN {KeepKey(g, rerolls, keep) :
                keep \in Range(dice_action_filter(g, anchor_tuple, roll, rerolls))}
        ELSE {AddKey(g, rerolls, roll, x) : x \in 1..g.num_sides}

\* the value one iteration of the loop stores for its position
PositionValue(g, anchor_tuple, vals, cv, position) ==
    LET rerolls == position[1]
        roll == position[2]
    IN  IF rerolls = 0
        THEN LET cats == category_action_filter(g, anchor_tuple, roll)
             IN  max([i \in 1..Len(cats) |->
                        LET x == update(g, anchor_tuple, roll, cats[i])
                        IN  Plus(vals[tuple_to_index(g, x.succ)], x.score * One(g))])
        ELSE IF size(roll) = g.num_dice
        THEN LET keeps == dice_action_filter(g, anchor_tuple, roll, rerolls)
             IN  max([i \in 1..Len(keeps) |-> cv[KeepKey(g, rerolls, keeps[i])]])
        ELSE LET terms == [x \in 1..g.num_sides |-> cv[AddKey(g, rerolls, roll, x)]]
             IN  IF \E x \in 1..g.num_sides : IsNaN(terms[x]) THEN NaN
                 ELSE SumSeq(terms) \div g.num_sides

FinalKey(g) == <<Rerolls + 1, DiceRoll(<<>>, g.num_sides)>>

(***************************************************************************)
(* Reference: expectimax over the positions of a turn, by recursion        *)
(***************************************************************************)
RefUnused(g, a) ==
    {c \in 0..(num_categories(g) - 2) : (a[3] \div Pow(2, c)) % 2 = 0}
        \cup (IF a[1] = UNUSED THEN {num_categories(g) - 1} ELSE {})

SetMax(S) == CHOOSE x \in S : \A y \in S : y <= x

RECURSIVE RefChoose(_, _, _, _, _), RefRoll(_, _, _, _, _)
\* a complete roll on the table with r rerolls left: the player's best choice
RefChoose(g, a, tbl, roll, r) ==
    IF r = 0
    THEN SetMax({tbl[update(g, a, roll, c).succ] + update(g, a, roll, c).score * One(g) :
                    c \in RefUnused(g, a)})
    ELSE SetMax({RefRoll(g, a, tbl, keep, r - 1) :
                    keep \in {k \in [1..g.num_sides -> 0..g.num_dice] :
                                \A f \in 1..g.num_sides : k[f] <= roll[f]}})

\* the dice of keep are held and the others are thrown one by one
RefRoll(g, a, tbl, keep, r) ==
    IF size(keep) = g.num_dice THEN RefChoose(g, a, tbl, keep, r)
    ELSE SumSeq([f \in 1..g.num_sides |-> RefRoll(g, a, tbl, add_one(keep, f), r)])
            \div g.num_sides

RefOpen(g, a) ==
    Cardinality(RefUnused(g, a))

\* the table of all anchors with at most n unused categories
RECURSIVE RefTable(_, _)
RefTable(g, n) ==
    IF n = 0 THEN [a \in {b \in AnchorTuples(g) : RefOpen(g, b) = 0} |-> 0]
    ELSE LET below == RefTable(g, n - 1)
         IN  [a \in {b \in AnchorTuples(g) : RefOpen(g, b) = n} |->
                 RefRoll(g, a, below, DiceRoll(<<>>, g.num_sides), Rerolls)] @@ below

Reference(g) == RefTable(g, num_categories(g))

(***************************************************************************)
(* State                                                                   *)
(***************************************************************************)
VARIABLES
    game,       \* the rule set
    anchor,     \* play: the anchor of the position
    sheet,      \* play: what the scoresheet adds up to
    last,       \* update: the arguments and the result of the last call
    values,     \* solve: the table of values
    seeded,     \* solve: the slots the table was seeded with
    cursor,     \* solve: how many tuples of the product the loop has taken
    pc,         \* solve: where the solver is
    component_values, \* solve_component: the map of the component
    pidx,       \* solve_component: the next position of the iteration
    result,     \* solve: the value returned
    written,    \* solve: the slots solve has assigned
    ref,        \* the reference values of the rule set
    ms,         \* library: the Multiset objects
    dr,         \* library: the DiceRoll objects
    arg,        \* library: the receiver of the last call
    out,        \* library: the last call and what it returned
    games,      \* environment: the YahtzeeGame objects
    turn,       \* environment: YahtzeeEnv.turn
    moves       \* environment: the calls that have returned normally

vars == <<game, anchor, sheet, last, values, seeded, cursor, pc,
          component_values, pidx, result, written, ref, ms, dr, arg, out,
          games, turn, moves>>

envVars == <<games, turn, moves>>

NoEnv ==
    /\ games = <<>>
    /\ turn = 0
    /\ moves = 0

libVars == <<ms, dr, arg, out, games, turn, moves>>

NoLib ==
    /\ ms = <<>>
    /\ dr = <<>>
    /\ arg = <<>>
    /\ out = <<>>
    /\ NoEnv

solveVars == <<values, seeded, cursor, pc, component_values, pidx, result, written, ref>>

NoMove == [cat |-> -1, roll |-> <<>>, from |-> <<0, 0, 0>>, succ |-> <<0, 0, 0>>,
           points |-> <<>>, score |-> 0]

NoSolve ==
    /\ values = <<>>
    /\ seeded = {}
    /\ cursor = 0
    /\ pc = "none"
    /\ component_values = <<>>
    /\ pidx = 0
    /\ result = NaN
    /\ written = {}
    /\ ref = <<>>

(***************************************************************************)
(* Playing a game: StandardYahtzee.play with update_position               *)
(***************************************************************************)
\* initial_position: nothing used, empty scoresheet
InitPlay ==
    /\ game \in {StandardYahtzee(t, PlaySides) : t \in {MaxThresh - 1, MaxThresh}}
    /\ anchor = <<UNUSED, 0, 0>>
    /\ sheet = [upper |-> 0, ub |-> 0]
    /\ last = NoMove
    /\ NoSolve
    /\ NoLib

\* update_position: score the roll in an unused category
Score(roll, cat) ==
    LET r == categories(game, cat, anchor, roll)
    IN  /\ anchor' = r.succ
        /\ sheet' = [upper |-> sheet.upper
                                 + (IF game.categories[cat + 1].kind = "upper"
                                    THEN r.points[cat] ELSE 0),
                     ub |-> sheet.ub + (IF UbSlot \in DOMAIN r.points
                                         THEN r.points[UbSlot] ELSE 0)]
        /\ UNCHANGED <<game, last>>
        /\ UNCHANGED solveVars
        /\ UNCHANGED libVars

PlayTurn ==
    /\ pc = "none"
    /\ ~is_terminal_anchor(game, anchor)
    /\ \E roll \in Range(complete_rolls(game)) :
         \E cat \in Range(unused_categories(game, anchor)) : Score(roll, cat)

NextPlay == PlayTurn

SpecPlay == InitPlay /\ [][NextPlay]_vars

(***************************************************************************)
(* The rule set as a function: one call of update on any anchor            *)
(***************************************************************************)
InitUpdate ==
    /\ game = StandardYahtzee(MaxThresh, PlaySides)
    /\ anchor \in AnchorTuples(game)
    /\ sheet = [upper |-> 0, ub |-> 0]
    /\ last = NoMove
    /\ NoSolve
    /\ NoLib

Update ==
    /\ last = NoMove
    /\ \E roll \in Range(complete_rolls(game)) :
         \E cat \in Range(unused_categories(game, anchor)) :
            LET r == update(game, anchor, roll, cat)
            IN  last' = [cat |-> cat, roll |-> roll, from |-> anchor, succ |-> r.succ,
                         points |-> r.points, score |-> r.score]
    /\ UNCHANGED <<game, anchor, sheet>>
    /\ UNCHANGED solveVars
    /\ UNCHANGED libVars

NextUpdate == Update

SpecUpdate == InitUpdate /\ [][NextUpdate]_vars

(***************************************************************************)
(* solve on a truncated rule set, one loop iteration at a time             *)
(***************************************************************************)
TruncatedLists ==
    {<<Upper(1), Upper(2), YahtzeeCat>>,
     <<Upper(1), NKind(2), YahtzeeCat>>,
     <<Upper(2), YahtzeeCat>>}

\* an upper limit of the total score of a game
MaxTotal(dice, sides, cats) == Len(cats) * (dice * sides + YValue + YBonus) + UbValue

\* sides^e, or more than limit when that is exceeded
RECURSIVE PowWithin(_, _, _)
PowWithin(b, e, limit) ==
    IF e = 0 THEN 1
    ELSE LET p == PowWithin(b, e - 1, limit)
         IN  IF p > limit \div b THEN limit + 1 ELSE b * p

\* every value of the table and every sum of num_sides values is below MaxInt
FitsWord(dice, sides, cats) ==
    LET limit == MaxInt \div (sides * MaxTotal(dice, sides, cats))
    IN  PowWithin(sides, dice * (Rerolls + 1) * Len(cats), limit) <= limit

TruncatedGames ==
    {MakeGame(t, c[1], c[2], c[3]) :
        t \in 1..MaxThresh,
        c \in {x \in (1..MaxDice) \X (2..MaxSides) \X TruncatedLists :
                 FitsWord(x[1], x[2], x[3])}}

\* no slot, or the slots of one block of n tuples that solve visits one after the other
SeedSets(g, n) ==
    {{}} \cup {{tuple_to_index(g, ProductTuple(g, k)) : k \in (n * b)..(n * b + n - 1)} :
                b \in 0..((AnchorCount(g) \div n) - 1)}

VisitedTuple == ProductTuple(game, cursor)

VisitedIndex == tuple_to_index(game, VisitedTuple)

\* the test of solve that is ignored: every slot is taken to be unsolved
NeedsSolving_always(i) == TRUE

\* math.isnan(values[anchor_index])
NeedsSolving(i) == IsNaN(values[i])

InitSolve ==
    /\ game \in TruncatedGames
    /\ ref = Reference(game)
    /\ seeded \in {S \in SeedSets(game, MaxSeeds) : S \subseteq 0..maximum_index(game)}
    /\ values = [i \in 0..maximum_index(game) |->
                    IF i \in seeded
                    THEN ref[CHOOSE a \in AnchorTuples(game) : tuple_to_index(game, a) = i]
                    ELSE NaN]
    /\ cursor = 0
    /\ pc = "loop"
    /\ component_values = <<>>
    /\ pidx = 0
    /\ result = NaN
    /\ written = {}
    /\ anchor = <<UNUSED, 0, 0>>
    /\ sheet = [upper |-> 0, ub |-> 0]
    /\ last = NoMove
    /\ NoLib

playVars == <<game, anchor, sheet, last>>

\* the slot of the visited tuple holds a value: continue
SolveSkip ==
    /\ pc = "loop"
    /\ cursor < AnchorCount(game)
    /\ ~NeedsSolving(VisitedIndex)
    /\ cursor' = cursor + 1
    /\ UNCHANGED <<values, seeded, pc, component_values, pidx, result, written, ref>>
    /\ UNCHANGED playVars
    /\ UNCHANGED libVars

SolveTerminal ==
    /\ pc = "loop"
    /\ cursor < AnchorCount(game)
    /\ NeedsSolving(VisitedIndex)
    /\ is_terminal_anchor(game, VisitedTuple)
    /\ values' = [values EXCEPT ![VisitedIndex] = terminal_value(game, VisitedTuple)]
    /\ written' = written \cup {VisitedIndex}
    /\ cursor' = cursor + 1
    /\ UNCHANGED <<seeded, pc, component_values, pidx, result, ref>>
    /\ UNCHANGED playVars
    /\ UNCHANGED libVars

\* the call of solve_component: an empty map, the iteration at its start
SolveComponentCall ==
    /\ pc = "loop"
    /\ cursor < AnchorCount(game)
    /\ NeedsSolving(VisitedIndex)
    /\ ~is_terminal_anchor(game, VisitedTuple)
    /\ pc' = "component"
    /\ component_values' = <<>>
    /\ pidx' = 1
    /\ UNCHANGED <<values, seeded, cursor, result, written, ref>>
    /\ UNCHANGED playVars
    /\ UNCHANGED libVars

\* one iteration of the loop of solve_component; a missing key ends the run
ComponentStep ==
    /\ pc = "component"
    /\ pidx <= Len(Positions(game))
    /\ LET position == Positions(game)[pidx]
       IN  IF ComponentReads(game, VisitedTuple, position) \subseteq DOMAIN component_values
           THEN /\ component_values' =
                     (position :> PositionValue(game, VisitedTuple, values,
                                                component_values, position))
                        @@ component_values
                /\ pidx' = pidx + 1
                /\ pc' = pc
           ELSE /\ pc' = "KeyError"
                /\ UNCHANGED <<component_values, pidx>>
    /\ UNCHANGED <<values, seeded, cursor, result, written, ref>>
    /\ UNCHANGED playVars
    /\ UNCHANGED libVars

\* solve_component returns; solve stores the value of the final key
SolveComponentReturn ==
    /\ pc = "component"
    /\ pidx > Len(Positions(game))
    /\ IF FinalKey(game) \in DOMAIN component_values
       THEN /\ values' = [values EXCEPT ![VisitedIndex] = component_values[FinalKey(game)]]
            /\ written' = written \cup {VisitedIndex}
            /\ cursor' = cursor + 1
            /\ pc' = "loop"
       ELSE /\ pc' = "KeyError"
            /\ UNCHANGED <<values, cursor, written>>
    /\ UNCHANGED <<seeded, component_values, pidx, result, ref>>
    /\ UNCHANGED playVars
    /\ UNCHANGED libVars

SolveReturn ==
    /\ pc = "loop"
    /\ cursor = AnchorCount(game)
    /\ result' = values[0]
    /\ pc' = "done"
    /\ UNCHANGED <<values, seeded, cursor, component_values, pidx, written, ref>>
    /\ UNCHANGED playVars
    /\ UNCHANGED libVars

NextSolve ==
    \/ SolveSkip
    \/ SolveTerminal
    \/ SolveComponentCall
    \/ ComponentStep
    \/ SolveComponentReturn
    \/ SolveReturn

SpecSolve == InitSolve /\ [][NextSolve]_vars

(***************************************************************************)
(* solve_component on a table of any state: the slots of the successors     *)
(* hold their value, or one of them still holds the NaN of line 48          *)
(***************************************************************************)
\* the slots solve_component reads for the anchor
SuccessorSlots(g, anchor_tuple) ==
    {tuple_to_index(g, update(g, anchor_tuple, roll, cat).succ) :
        roll \in Range(complete_rolls(g)),
        cat \in Range(category_action_filter(g, anchor_tuple, <<>>))}

InitComponent ==
    /\ game \in TruncatedGames
    /\ ref = Reference(game)
    /\ seeded = {}
    /\ cursor \in {k \in 0..(AnchorCount(game) - 1) :
                     ~is_terminal_anchor(game, ProductTuple(game, k))}
    /\ \E unsolved \in {{}} \cup {{i} : i \in SuccessorSlots(game, ProductTuple(game, cursor))} :
          values = [i \in 0..maximum_index(game) |->
                      IF i \in unsolved \/ i \notin {tuple_to_index(game, a) : a \in AnchorTuples(game)}
                      THEN NaN
                      ELSE ref[CHOOSE a \in AnchorTuples(game) : tuple_to_index(game, a) = i]]
    /\ pc = "component"
    /\ component_values = <<>>
    /\ pidx = 1
    /\ result = NaN
    /\ written = {}
    /\ anchor = <<UNUSED, 0, 0>>
    /\ sheet = [upper |-> 0, ub |-> 0]
    /\ last = NoMove
    /\ NoLib

NextComponent ==
    \/ ComponentStep
    \/ SolveComponentReturn

SpecComponent == InitComponent /\ [][NextComponent]_vars

(***************************************************************************)
(* update called with any category index, used in the anchor or not         *)
(***************************************************************************)
InitCall ==
    /\ game = StandardYahtzee(MaxThresh, PlaySides)
    /\ anchor \in AnchorTuples(game)
    /\ sheet = [upper |-> 0, ub |-> 0]
    /\ last = NoMove
    /\ NoSolve
    /\ NoLib

\* self.categories[cat](anchor_tuple, roll, cat): no test of the anchor comes first
Call ==
    /\ last = NoMove
    /\ \E roll \in Range(complete_rolls(game)) :
         \E cat \in 0..(num_categories(game) - 1) :
            LET r == update(game, anchor, roll, cat)
            IN  last' = [cat |-> cat, roll |-> roll, from |-> anchor, succ |-> r.succ,
                         points |-> r.points, score |-> r.score]
    /\ UNCHANGED <<game, anchor, sheet>>
    /\ UNCHANGED solveVars
    /\ UNCHANGED libVars

NextCall == Call

SpecCall == InitCall /\ [][NextCall]_vars

(***************************************************************************)
(* solve from a fresh table, the filters enumerating in another order       *)
(***************************************************************************)
\* the list s taken from its item rot + 1 round, and backwards if rev
Reorder(s, rot, rev) ==
    LET n == Len(s)
        turned == [i \in 1..n |-> s[((i - 1 + rot) % n) + 1]]
    IN  IF rev THEN [i \in 1..n |-> turned[n + 1 - i]] ELSE turned

\* the loop body of solve_component with the two filters' lists reordered
PositionValueIn(g, anchor_tuple, vals, cv, position, order) ==
    LET rerolls == position[1]
        roll == position[2]
    IN  IF rerolls = 0
        THEN LET cats == Reorder(category_action_filter(g, anchor_tuple, roll),
                                 order.rot, order.rev)
             IN  max([i \in 1..Len(cats) |->
                        LET x == update(g, anchor_tuple, roll, cats[i])
                        IN  Plus(vals[tuple_to_index(g, x.succ)], x.score * One(g))])
        ELSE IF size(roll) = g.num_dice
        THEN LET keeps == Reorder(dice_action_filter(g, anchor_tuple, roll, rerolls),
                                  order.rot, order.rev)
             IN  max([i \in 1..Len(keeps) |-> cv[KeepKey(g, rerolls, keeps[i])]])
        ELSE PositionValue(g, anchor_tuple, vals, cv, position)

\* values is None: a table of NaN; arg is the order this run enumerates in
InitAnyOrder ==
    /\ game \in TruncatedGames
    /\ ref = Reference(game)
    /\ seeded = {}
    /\ values = [i \in 0..maximum_index(game) |-> NaN]
    /\ cursor = 0
    /\ pc = "loop"
    /\ component_values = <<>>
    /\ pidx = 0
    /\ result = NaN
    /\ written = {}
    /\ anchor = <<UNUSED, 0, 0>>
    /\ sheet = [upper |-> 0, ub |-> 0]
    /\ last = NoMove
    /\ ms = <<>>
    /\ dr = <<>>
    /\ NoEnv
    /\ arg \in [rot : 0..MaxRot, rev : BOOLEAN]
    /\ out = <<>>

ComponentStepAnyOrder ==
    /\ pc = "component"
    /\ pidx <= Len(Positions(game))
    /\ LET position == Positions(game)[pidx]
       IN  IF ComponentReads(game, VisitedTuple, position) \subseteq DOMAIN component_values
           THEN /\ component_values' =
                     (position :> PositionValueIn(game, VisitedTuple, values,
                                                  component_values, position, arg))
                        @@ component_values
                /\ pidx' = pidx + 1
                /\ pc' = pc
           ELSE /\ pc' = "KeyError"
                /\ UNCHANGED <<component_values, pidx>>
    /\ UNCHANGED <<values, seeded, cursor, result, written, ref>>
    /\ UNCHANGED playVars
    /\ UNCHANGED libVars

NextAnyOrder ==
    \/ SolveTerminal
    \/ SolveComponentCall
    \/ ComponentStepAnyOrder
    \/ SolveComponentReturn
    \/ SolveReturn

SpecAnyOrder == InitAnyOrder /\ [][NextAnyOrder]_vars

(***************************************************************************)
(* Anchors as text: position_to_string and parse_anchor.  A string is the   *)
(* sequence of its characters.                                              *)
(***************************************************************************)
Digits == <<"0", "1", "2", "3", "4", "5", "6", "7", "8", "9">>

\* str(n) of a natural number
RECURSIVE str(_)
str(n) == IF n < 10 THEN <<Digits[n + 1]>> ELSE Append(str(n \div 10), Digits[(n % 10) + 1])

isdigit(c) == \E d \in 1..10 : Digits[d] = c

\* int(s) of a string of digits; <<"ValueError">> for any other string
RECURSIVE IntFrom(_, _, _)
IntFrom(s, i, acc) ==
    IF i > Len(s) THEN <<acc>>
    ELSE IF ~isdigit(s[i]) THEN <<"ValueError">>
    ELSE IntFrom(s, i + 1, 10 * acc + ((CHOOSE d \in 1..10 : Digits[d] = s[i]) - 1))

int(s) == IF Len(s) = 0 THEN <<"ValueError">> ELSE IntFrom(s, 1, 0)

\* s[m:n] with m and n counted from 0
Slice(s, m, n) == SubSeq(s, m + 1, IF n < Len(s) THEN n ELSE Len(s))

\* sep.join(parts)
RECURSIVE join(_, _)
join(sep, parts) ==
    IF parts = <<>> THEN <<>>
    ELSE IF Len(parts) = 1 THEN parts[1]
    ELSE parts[1] \o sep \o join(sep, Tail(parts))

\* s.split(sep) for a separator of one character: every separator ends a field
RECURSIVE SplitFrom(_, _, _, _, _)
SplitFrom(s, sep, i, field, fields) ==
    IF i > Len(s) THEN Append(fields, field)
    ELSE IF s[i] = sep THEN SplitFrom(s, sep, i + 1, <<>>, Append(fields, field))
    ELSE SplitFrom(s, sep, i + 1, Append(field, s[i]), fields)

split(s, sep) == SplitFrom(s, sep, 1, <<>>, <<>>)

\* self._abbrevs of the rule set
abbrevs(g) ==
    [i \in 1..num_categories(g) |->
        LET c == g.categories[i]
        IN  IF c.kind = "upper" THEN str(c.n)
            ELSE IF c.kind = "n_kind" THEN (IF c.n = 1 THEN <<"C">> ELSE str(c.n) \o <<"K">>)
            ELSE IF c.kind = "full_house" THEN <<"F", "H">>
            ELSE IF c.kind = "straight" THEN (IF c.n = 4 THEN <<"S", "S">> ELSE <<"L", "S">>)
            ELSE <<"Y">>]

\* the numbers of a roll in ascending order: DiceRoll.__iter__
RECURSIVE as_tuple(_)
as_tuple(roll) ==
    IF roll = <<>> THEN <<>>
    ELSE as_tuple(SubSeq(roll, 1, Len(roll) - 1))
            \o [k \in 1..roll[Len(roll)] |-> Len(roll)]

RECURSIVE Concat(_)
Concat(parts) == IF parts = <<>> THEN <<>> ELSE Head(parts) \o Concat(Tail(parts))

position_to_string(g, pos) ==
    LET anchor_tuple == pos[1]
        roll == pos[3]
        rerolls == pos[4]
        names == abbrevs(g)
        listed == SelectSeq([i \in 1..Len(names) |-> i],
                            LAMBDA i : /\ is_used_by_index(g, anchor_tuple, i - 1)
                                       /\ names[i] /= <<"Y">>)
        used_output == [k \in 1..Len(listed) |-> names[listed[k]]]
        y_output == IF anchor_tuple[1] = ZERO THEN <<(<<"Y">>)>>
                    ELSE IF anchor_tuple[1] = NONZERO THEN <<(<<"Y", "+">>)>>
                    ELSE <<>>
        anchor_output == used_output \o y_output
                            \o <<(<<"U", "P">> \o str(anchor_tuple[2]))>>
        numbers == as_tuple(roll)
    IN  join(<<",">>, <<join(<<" ">>, anchor_output),
                        Concat([k \in 1..Len(numbers) |-> str(numbers[k])]),
                        str(rerolls)>>)

\* the place of the item counted from 1 where the caller counts from 0
IndexOf_shifted(names, name) ==
    IF \E i \in 1..Len(names) : names[i] = name
    THEN 1 + (CHOOSE i \in 1..Len(names) : names[i] = name)
    ELSE 0

\* list.index: the first place of the item, 0 when it is not in the list
IndexOf(names, name) ==
    IF \E i \in 1..Len(names) : names[i] = name
    THEN CHOOSE i \in 1..Len(names) : names[i] = name /\ \A j \in 1..(i - 1) : names[j] /= name
    ELSE 0

\* the loop of parse_anchor over the fields from the i-th on
RECURSIVE ParseFrom(_, _, _, _)
ParseFrom(g, cats, i, acc) ==
    IF Len(acc) = 1 \/ i > Len(cats) THEN acc
    ELSE LET cat == cats[i]
         IN  IF Slice(cat, 0, 2) /= <<"U", "P">>
             THEN IF cat = <<"Y", "+">> THEN ParseFrom(g, cats, i + 1, <<NONZERO, acc[2], acc[3]>>)
                  ELSE IF cat = <<"Y">> THEN ParseFrom(g, cats, i + 1, <<ZERO, acc[2], acc[3]>>)
                  ELSE LET index == IndexOf(abbrevs(g), cat) - 1
                       IN  IF index < 0 THEN <<"ValueError">>
                           ELSE ParseFrom(g, cats, i + 1,
                                          <<acc[1], acc[2],
                                            IF BitSet(acc[3], index) THEN acc[3]
                                            ELSE acc[3] + Pow(2, index)>>)
             ELSE LET upper_part == int(Slice(cat, 2, Len(cat)))
                  IN  IF upper_part[1] \in Nat
                      THEN ParseFrom(g, cats, i + 1, <<acc[1], upper_part[1], acc[3]>>)
                      ELSE <<"ValueError">>

parse_anchor(g, s) == ParseFrom(g, split(s, " "), 1, <<UNUSED, 0, 0>>)

\* a position at the start of a turn is written, then its anchor field is read back
InitText ==
    /\ game = StandardYahtzee(TextThresh, PlaySides)
    /\ anchor \in AnchorTuples(game)
    /\ sheet = [upper |-> 0, ub |-> 0]
    /\ last = NoMove
    /\ NoSolve
    /\ NoLib

WriteText ==
    /\ pc = "none"
    /\ out = <<>>
    /\ out' = <<position_to_string(game, <<anchor, sheet, DiceRoll(<<>>, game.num_sides),
                                           Rerolls + 1>>)>>
    /\ UNCHANGED <<game, anchor, sheet, last, ms, dr, arg, envVars>>
    /\ UNCHANGED solveVars

\* parse_anchor on the first field of the line
ReadText ==
    /\ Len(out) = 1
    /\ out' = Append(out, parse_anchor(game, split(out[1], ",")[1]))
    /\ UNCHANGED <<game, anchor, sheet, last, ms, dr, arg, envVars>>
    /\ UNCHANGED solveVars

NextText ==
    \/ WriteText
    \/ ReadText

SpecText == InitText /\ [][NextText]_vars

(***************************************************************************)
(* DiceRoll and YahtzeeRoll methods called on a roll                        *)
(***************************************************************************)
\* list(range(a, b + 1))
RangeList(a, b) == [k \in 1..(b - a + 1) |-> a + k - 1]

\* a new run replaces the list also when it only ties the best length
RECURSIVE LongestRunsFrom_no_ties(_, _, _, _, _)
LongestRunsFrom_no_ties(roll, i, runs, longest, curr_len) ==
    IF i > Len(roll) THEN runs
    ELSE IF count(roll, i) > 0
    THEN IF curr_len + 1 >= longest
         THEN LongestRunsFrom_no_ties(roll, i + 1, <<RangeList(i - curr_len, i)>>,
                                      curr_len + 1, curr_len + 1)
         ELSE LongestRunsFrom_no_ties(roll, i + 1, runs, longest, curr_len + 1)
    ELSE LongestRunsFrom_no_ties(roll, i + 1, runs, longest, 0)

\* the loop of longest_runs from face i on
RECURSIVE LongestRunsFrom(_, _, _, _, _)
LongestRunsFrom(roll, i, runs, longest, curr_len) ==
    IF i > Len(roll) THEN runs
    ELSE IF count(roll, i) > 0
    THEN IF curr_len + 1 = longest
         THEN LongestRunsFrom(roll, i + 1, Append(runs, RangeList(i - curr_len, i)),
                              longest, curr_len + 1)
         ELSE IF curr_len + 1 > longest
         THEN LongestRunsFrom(roll, i + 1, <<RangeList(i - curr_len, i)>>,
                              curr_len + 1, curr_len + 1)
         ELSE LongestRunsFrom(roll, i + 1, runs, longest, curr_len + 1)
    ELSE LongestRunsFrom(roll, i + 1, runs, longest, 0)

longest_runs(roll) == LongestRunsFrom(roll, 1, <<>>, 0, 0)

\* the list keep of select_all; maximum is <<>> for None and <<m>> for a number
RECURSIVE SelectAllKeep(_, _, _, _)
SelectAllKeep(roll, nums, maximum, i) ==
    IF i > Len(nums) THEN <<>>
    ELSE LET n == nums[i]
             c == count(roll, n)
             m == IF maximum = <<>> THEN c ELSE IF maximum[1] < c THEN maximum[1] ELSE c
         IN  [k \in 1..m |-> n] \o SelectAllKeep(roll, nums, maximum, i + 1)

\* the list keep of select_one
RECURSIVE SelectOneKeep(_, _, _)
SelectOneKeep(roll, nums, i) ==
    IF i > Len(nums) THEN <<>>
    ELSE (IF count(roll, nums[i]) > 0 THEN <<nums[i]>> ELSE <<>>)
            \o SelectOneKeep(roll, nums, i + 1)

OutOfRange(roll, nums) == \E i \in 1..Len(nums) : nums[i] < 1 \/ nums[i] > Len(roll)

\* one of each number asked for, whatever maximum says
select_all_once(roll, nums, maximum) ==
    IF OutOfRange(roll, nums) THEN <<"ValueError">>
    ELSE DiceRoll(SelectOneKeep(roll, nums, 1), Len(roll))

select_all(roll, nums, maximum) ==
    IF OutOfRange(roll, nums) THEN <<"ValueError">>
    ELSE DiceRoll(SelectAllKeep(roll, nums, maximum, 1), Len(roll))

select_one(roll, nums) ==
    IF OutOfRange(roll, nums) THEN <<"ValueError">>
    ELSE DiceRoll(SelectOneKeep(roll, nums, 1), Len(roll))

\* YahtzeeRoll.parse of a string of digits
YahtzeeRoll_parse(s) ==
    IF Len(s) > EnvDice THEN <<"ValueError">>
    ELSE IF \E i \in 1..Len(s) : \/ ~isdigit(s[i])
                                  \/ int(<<s[i]>>)[1] < 1
                                  \/ int(<<s[i]>>)[1] > EnvSides
    THEN <<"ValueError">>
    ELSE DiceRoll([i \in 1..Len(s) |-> int(<<s[i]>>)[1]], EnvSides)

\* YahtzeeRoll.select_all: the numbers kept are written as a string and parsed
YahtzeeRoll_select_all(roll, nums, maximum) ==
    IF \E i \in 1..Len(nums) : nums[i] < 1 \/ nums[i] > EnvSides THEN <<"ValueError">>
    ELSE LET keep == SelectAllKeep(roll, nums, maximum, 1)
         IN  YahtzeeRoll_parse(Concat([k \in 1..Len(keep) |-> str(keep[k])]))

\* the rolls of at most n dice with the given sides
RollsUpTo(n, sides) == UNION {Range(RollsOfSize(k, sides)) : k \in 0..n}

\* the receivers: DiceRoll of any sides, and the rolls a YahtzeeRoll holds
Receivers == (UNION {RollsUpTo(RollDice, sides) : sides \in 1..RollSides})
                \cup RollsUpTo(EnvDice, EnvSides)

\* the lists of numbers asked for: none, every face once in either order, one face,
\* one face twice, a number that is no face
NumLists(sides) ==
    {<<>>, RangeList(1, sides), [k \in 1..sides |-> sides + 1 - k], <<1>>,
     <<sides, sides>>, <<0>>, <<1, sides + 1>>}

InitRoll ==
    /\ arg \in Receivers
    /\ out = <<>>
    /\ ms = <<>>
    /\ dr = <<>>
    /\ game = StandardYahtzee(MaxThresh, PlaySides)
    /\ NoEnv
    /\ anchor = <<UNUSED, 0, 0>>
    /\ sheet = [upper |-> 0, ub |-> 0]
    /\ last = NoMove
    /\ NoSolve

\* what a call on the receiver leaves alone
receiverVars == <<game, anchor, sheet, last, ms, dr, arg, envVars>>

CallAllSubrolls ==
    /\ Len(out) = 0
    /\ out' = <<"all_subrolls", all_subrolls(arg)>>
    /\ UNCHANGED receiverVars
    /\ UNCHANGED solveVars

CallLongestRuns ==
    /\ Len(out) = 0
    /\ out' = <<"longest_runs", longest_runs(arg)>>
    /\ UNCHANGED receiverVars
    /\ UNCHANGED solveVars

CallSelectAll ==
    /\ Len(out) = 0
    /\ \E nums \in NumLists(Len(arg)) : \E maximum \in {<<>>, <<0>>, <<1>>, <<2>>} :
          out' = <<"select_all", select_all(arg, nums, maximum), nums, maximum>>
    /\ UNCHANGED receiverVars
    /\ UNCHANGED solveVars

CallSelectOne ==
    /\ Len(out) = 0
    /\ \E nums \in NumLists(Len(arg)) :
          out' = <<"select_one", select_one(arg, nums), nums>>
    /\ UNCHANGED receiverVars
    /\ UNCHANGED solveVars

\* maximum defaults to 5
CallYahtzeeSelectAll ==
    /\ Len(out) = 0
    /\ Len(arg) = EnvSides
    /\ \E nums \in NumLists(EnvSides) : \E maximum \in {<<EnvDice>>, <<3>>} :
          out' = <<"YahtzeeRoll.select_all", YahtzeeRoll_select_all(arg, nums, maximum),
                   nums, maximum>>
    /\ UNCHANGED receiverVars
    /\ UNCHANGED solveVars

CallIsFullHouse ==
    /\ Len(out) = 0
    /\ out' = <<"is_full_house", <<is_full_house(arg)>>>>
    /\ UNCHANGED receiverVars
    /\ UNCHANGED solveVars

NextRoll ==
    \/ CallIsFullHouse
    \/ CallAllSubrolls
    \/ CallLongestRuns
    \/ CallSelectAll
    \/ CallSelectOne
    \/ CallYahtzeeSelectAll

SpecRoll == InitRoll /\ [][NextRoll]_vars

(***************************************************************************)
(* Multiset objects.  freq[k + 1] is the count of the value k; a method     *)
(* returns whether it raised and the object as the call leaves it.          *)
(***************************************************************************)
\* solver/multiset.py Multiset.__init__
Multiset_init(n) == [maximum |-> n, freq |-> Multiset(n), size |-> 0, min |-> n, max |-> -1]

\* multiset.py Multiset.__init__: no _min and no _max
EnvMultiset_init(n) == [maximum |-> n, freq |-> Multiset(n), size |-> 0]

Multiset_add(self, num) ==
    IF num < 0 \/ num >= Len(self.freq) THEN [raised |-> TRUE, self |-> self]
    ELSE [raised |-> FALSE,
          self |-> [self EXCEPT !.freq[num + 1] = @ + 1,
                                !.size = @ + 1,
                                !.min = IF num < @ THEN num ELSE @,
                                !.max = IF num > @ THEN num ELSE @]]

EnvMultiset_add(self, num) ==
    IF num < 0 \/ num >= Len(self.freq) THEN [raised |-> TRUE, self |-> self]
    ELSE [raised |-> FALSE,
          self |-> [self EXCEPT !.freq[num + 1] = @ + 1, !.size = @ + 1]]

\* the rest of the occurrences are added without the call of add: min and max are missed
Multiset_add_many_direct(self, num, n) ==
    IF num < 0 \/ num >= Len(self.freq) \/ n < 0 THEN [raised |-> TRUE, self |-> self]
    ELSE [raised |-> FALSE,
          self |-> [self EXCEPT !.freq[num + 1] = @ + n, !.size = @ + n]]

Multiset_add_many(self, num, n) ==
    IF num < 0 \/ num >= Len(self.freq) THEN [raised |-> TRUE, self |-> self]
    ELSE IF n < 0 THEN [raised |-> TRUE, self |-> self]
    ELSE IF n > 0
    THEN LET one == Multiset_add(self, num).self
         IN  [raised |-> FALSE,
              self |-> [one EXCEPT !.freq[num + 1] = @ + (n - 1), !.size = @ + (n - 1)]]
    ELSE [raised |-> FALSE, self |-> self]

\* add_random: elts are the values random.choice returns, one call of add for each
RECURSIVE Multiset_add_random(_, _, _)
Multiset_add_random(self, n, elts) ==
    IF n < 0 THEN [raised |-> TRUE, self |-> self]
    ELSE IF elts = <<>> THEN [raised |-> FALSE, self |-> self]
    ELSE Multiset_add_random(Multiset_add(self, Head(elts)).self, n, Tail(elts))

\* multiset.py add_random: the counts one by one, the size at the end
RECURSIVE EnvFreqAdd(_, _)
EnvFreqAdd(freq, elts) ==
    IF elts = <<>> THEN freq
    ELSE EnvFreqAdd([freq EXCEPT ![Head(elts) + 1] = @ + 1], Tail(elts))

EnvMultiset_add_random(self, n, elts) ==
    IF n < 0 THEN [raised |-> TRUE, self |-> self]
    ELSE [raised |-> FALSE,
          self |-> [self EXCEPT !.freq = EnvFreqAdd(@, elts), !.size = @ + n]]

Multiset_count(self, num) ==
    IF num < 0 \/ num >= Len(self.freq) THEN 0 ELSE self.freq[num + 1]

\* the counts are compared over the smaller capacity only
Multiset_subset_zip(self, other) ==
    \A elt \in 0..(Len(self.freq) - 1) :
        elt < Len(other.freq) => ~(other.freq[elt + 1] < self.freq[elt + 1])

Multiset_subset(self, other) ==
    \A elt \in 0..(Len(self.freq) - 1) :
        ~(Multiset_count(other, elt) < self.freq[elt + 1])

Multiset_eq(self, other) ==
    IF self.size = other.size
    THEN LET min_max == IF self.maximum < other.maximum THEN self.maximum ELSE other.maximum
         IN  SubSeq(self.freq, 1, min_max) = SubSeq(other.freq, 1, min_max)
    ELSE FALSE

IsSolverMultiset(self) == "min" \in DOMAIN self

\* the sequences of n values random.choice can return for a capacity
Choices(capacity, n) == IF n < 0 THEN {<<>>} ELSE [1..n -> 0..(capacity - 1)]

InitMultiset ==
    /\ \E n1 \in 1..MaxCap : \E n2 \in 1..MaxCap :
          ms \in {<<Multiset_init(n1), Multiset_init(n2)>>,
                  <<Multiset_init(n1), EnvMultiset_init(n2)>>}
    /\ dr = <<>>
    /\ arg = <<>>
    /\ out = <<>>
    /\ game = StandardYahtzee(MaxThresh, PlaySides)
    /\ NoEnv
    /\ anchor = <<UNUSED, 0, 0>>
    /\ sheet = [upper |-> 0, ub |-> 0]
    /\ last = NoMove
    /\ NoSolve

\* what a call on a Multiset leaves alone
multisetFrame == <<game, anchor, sheet, last, dr, arg, envVars>>

Add ==
    /\ \E i \in 1..2 : \E num \in (-1)..MaxCap :
          LET r == IF IsSolverMultiset(ms[i]) THEN Multiset_add(ms[i], num)
                   ELSE EnvMultiset_add(ms[i], num)
          IN  /\ r.self.size <= MaxElems
              /\ ms' = [ms EXCEPT ![i] = r.self]
              /\ out' = <<"add", r.raised>>
    /\ UNCHANGED multisetFrame
    /\ UNCHANGED solveVars

AddMany ==
    /\ \E i \in 1..2 : \E num \in (-1)..MaxCap : \E n \in (-1)..MaxElems :
          /\ IsSolverMultiset(ms[i])
          /\ LET r == Multiset_add_many(ms[i], num, n)
             IN  /\ r.self.size <= MaxElems
                 /\ ms' = [ms EXCEPT ![i] = r.self]
                 /\ out' = <<"add_many", r.raised>>
    /\ UNCHANGED multisetFrame
    /\ UNCHANGED solveVars

AddRandom ==
    /\ \E i \in 1..2 : \E n \in (-1)..2 :
          /\ ms[i].size + n <= MaxElems
          /\ \E elts \in Choices(ms[i].maximum, n) :
                LET r == IF IsSolverMultiset(ms[i]) THEN Multiset_add_random(ms[i], n, elts)
                         ELSE EnvMultiset_add_random(ms[i], n, elts)
                IN  /\ ms' = [ms EXCEPT ![i] = r.self]
                    /\ out' = <<"add_random", r.raised>>
    /\ UNCHANGED multisetFrame
    /\ UNCHANGED solveVars

NextMultiset ==
    \/ Add
    \/ AddMany
    \/ AddRandom

SpecMultiset == InitMultiset /\ [][NextMultiset]_vars

(***************************************************************************)
(* DiceRoll objects: _dice is a Multiset object, _hash the cached hash,     *)
(* <<>> for None.  A method that returns a roll returns whether it raised   *)
(* and the new object.                                                      *)
(***************************************************************************)
\* the loop of __init__: one add for each of pips
RECURSIVE AddPips(_, _)
AddPips(dice, pips) ==
    IF pips = <<>> THEN [raised |-> FALSE, self |-> dice]
    ELSE LET r == Multiset_add(dice, Head(pips) - 1)
         IN  IF r.raised THEN r ELSE AddPips(r.self, Tail(pips))

DiceRoll_init(pips, sides) ==
    IF sides <= 0 THEN [raised |-> TRUE]
    ELSE LET r == AddPips(Multiset_init(sides), pips)
         IN  IF r.raised THEN [raised |-> TRUE]
             ELSE [raised |-> FALSE, result |-> [dice |-> r.self, hash |-> <<>>]]

\* roll: elts are the values random.choice returns
DiceRoll_roll(n, sides, elts) ==
    LET made == DiceRoll_init(<<>>, sides)
    IN  IF made.raised THEN made
        ELSE LET r == Multiset_add_random(made.result.dice, n, elts)
             IN  IF r.raised THEN [raised |-> TRUE]
                 ELSE [raised |-> FALSE, result |-> [made.result EXCEPT !.dice = r.self]]

DiceRoll_parse(s, sides) ==
    IF sides <= 0 THEN [raised |-> TRUE]
    ELSE IF \E i \in 1..Len(s) : \/ ~isdigit(s[i])
                                  \/ int(<<s[i]>>)[1] < 1
                                  \/ int(<<s[i]>>)[1] > sides
    THEN [raised |-> TRUE]
    ELSE DiceRoll_init([i \in 1..Len(s) |-> int(<<s[i]>>)[1]], sides)

\* the numbers showing, lowest first
DiceRoll_as_list(self) == as_tuple(self.dice.freq)

\* the object itself is handed back, its cached hash with it
DiceRoll_copy_shared(self) == self

DiceRoll_copy(self) == DiceRoll_init(DiceRoll_as_list(self), self.dice.maximum).result

\* the dice are added to the receiver itself, which is handed back
DiceRoll_reroll_in_place(self, goal, elts) ==
    IF goal < self.dice.size THEN [raised |-> TRUE, self |-> self]
    ELSE LET r == Multiset_add_random(self.dice, goal - self.dice.size, elts)
             grown == [self EXCEPT !.dice = r.self]
         IN  [raised |-> FALSE, self |-> grown, result |-> grown]

\* reroll and add_one: self is the receiver as the call leaves it
DiceRoll_reroll(self, goal, elts) ==
    IF goal < self.dice.size THEN [raised |-> TRUE, self |-> self]
    ELSE LET made == DiceRoll_copy(self)
             r == Multiset_add_random(made.dice, goal - self.dice.size, elts)
         IN  [raised |-> FALSE, self |-> self, result |-> [made EXCEPT !.dice = r.self]]

DiceRoll_add_one(self, num) ==
    IF num < 1 \/ num > self.dice.maximum THEN [raised |-> TRUE, self |-> self]
    ELSE LET made == DiceRoll_copy(self)
         IN  [raised |-> FALSE, self |-> self,
              result |-> [made EXCEPT !.dice = Multiset_add(@, num - 1).self]]

DiceRoll_subroll(self, other) ==
    self.dice.maximum = other.dice.maximum /\ Multiset_subset(self.dice, other.dice)

DiceRoll_select_all(self, nums, maximum) ==
    IF OutOfRange(self.dice.freq, nums) THEN [raised |-> TRUE]
    ELSE DiceRoll_init(SelectAllKeep(self.dice.freq, nums, maximum, 1), self.dice.maximum)

DiceRoll_select_one(self, nums) ==
    IF OutOfRange(self.dice.freq, nums) THEN [raised |-> TRUE]
    ELSE DiceRoll_init(SelectOneKeep(self.dice.freq, nums, 1), self.dice.maximum)

\* all_subrolls: a new DiceRoll for each combination of counts
DiceRoll_all_subrolls(self) ==
    LET counts == all_subrolls(self.dice.freq)
    IN  [k \in 1..Len(counts) |-> DiceRoll_init(as_tuple(counts[k]), self.dice.maximum).result]

\* what __hash__ hashes
HashKey(self) == <<self.dice.maximum, DiceRoll_as_list(self)>>

\* __hash__: the object as the call leaves it; its _hash is what the call returns
DiceRoll_hash(self) ==
    IF self.hash = <<>> THEN [self EXCEPT !.hash = <<HashKey(self)>>] ELSE self

DiceRoll_eq(self, other) ==
    self.dice.maximum = other.dice.maximum /\ Multiset_eq(self.dice, other.dice)

\* the strings parse is given: the lists of numbers written as digits, and a letter
DigitStrings(sides) ==
    {Concat([k \in 1..Len(p) |-> str(p[k])]) : p \in NumLists(sides)} \cup {<<"x">>}

\* two variables, each bound to a roll made by the constructor
InitDice ==
    /\ \E s1 \in 1..DiceSides : \E s2 \in 1..DiceSides :
          dr \in {<<DiceRoll_init(<<>>, s1).result, DiceRoll_init(p, s2).result>> :
                     p \in {<<>>, <<1>>, <<s2>>}}
    /\ ms = <<>>
    /\ arg = <<>>
    /\ out = <<>>
    /\ game = StandardYahtzee(MaxThresh, PlaySides)
    /\ NoEnv
    /\ anchor = <<UNUSED, 0, 0>>
    /\ sheet = [upper |-> 0, ub |-> 0]
    /\ last = NoMove
    /\ NoSolve

\* what a call on a DiceRoll leaves alone
diceFrame == <<game, anchor, sheet, last, ms, arg, envVars>>

\* the call returned a roll of at most DiceCount dice, or raised
Fits(r) == IF r.raised THEN TRUE ELSE r.result.dice.size <= DiceCount

\* variable j is bound to what the call returned, unless it raised
Rebound(j, r) == IF r.raised THEN dr ELSE [dr EXCEPT ![j] = r.result]

Construct ==
    /\ \E j \in 1..2 : \E sides \in 0..DiceSides : \E pips \in NumLists(sides) :
          LET r == DiceRoll_init(pips, sides)
          IN  /\ Fits(r)
              /\ dr' = Rebound(j, r)
              /\ out' = <<"DiceRoll">>
    /\ UNCHANGED diceFrame
    /\ UNCHANGED solveVars

Roll ==
    /\ \E j \in 1..2 : \E sides \in 0..DiceSides : \E n \in (-1)..1 :
       \E elts \in Choices(sides, n) :
          LET r == DiceRoll_roll(n, sides, elts)
          IN  /\ Fits(r)
              /\ dr' = Rebound(j, r)
              /\ out' = <<"roll">>
    /\ UNCHANGED diceFrame
    /\ UNCHANGED solveVars

Parse ==
    /\ \E j \in 1..2 : \E sides \in 0..DiceSides : \E s \in DigitStrings(sides) :
          LET r == DiceRoll_parse(s, sides)
          IN  /\ Fits(r)
              /\ dr' = Rebound(j, r)
              /\ out' = <<"parse">>
    /\ UNCHANGED diceFrame
    /\ UNCHANGED solveVars

\* y = x.copy() and the like: the receiver is one variable, the result the other
Copy ==
    /\ \E j \in 1..2 :
          LET r == [raised |-> FALSE, result |-> DiceRoll_copy(dr[3 - j])]
          IN  /\ Fits(r)
              /\ dr' = Rebound(j, r)
              /\ out' = <<"copy">>
    /\ UNCHANGED diceFrame
    /\ UNCHANGED solveVars

Reroll ==
    /\ \E j \in 1..2 : \E goal \in 0..DiceCount :
       \E elts \in Choices(dr[3 - j].dice.maximum, goal - dr[3 - j].dice.size) :
          LET r == DiceRoll_reroll(dr[3 - j], goal, elts)
          IN  /\ Fits(r)
              /\ dr' = [Rebound(j, r) EXCEPT ![3 - j] = r.self]
              /\ out' = <<"reroll">>
    /\ UNCHANGED diceFrame
    /\ UNCHANGED solveVars

AddOne ==
    /\ \E j \in 1..2 : \E num \in 0..(DiceSides + 1) :
          LET r == DiceRoll_add_one(dr[3 - j], num)
          IN  /\ Fits(r)
              /\ dr' = [Rebound(j, r) EXCEPT ![3 - j] = r.self]
              /\ out' = <<"add_one">>
    /\ UNCHANGED diceFrame
    /\ UNCHANGED solveVars

SelectAll ==
    /\ \E j \in 1..2 : \E nums \in NumLists(dr[3 - j].dice.maximum) :
       \E maximum \in {<<>>, <<1>>} :
          LET r == DiceRoll_select_all(dr[3 - j], nums, maximum)
          IN  /\ Fits(r)
              /\ dr' = Rebound(j, r)
              /\ out' = <<"select_all">>
    /\ UNCHANGED diceFrame
    /\ UNCHANGED solveVars

SelectOne ==
    /\ \E j \in 1..2 : \E nums \in NumLists(dr[3 - j].dice.maximum) :
          LET r == DiceRoll_select_one(dr[3 - j], nums)
          IN  /\ Fits(r)
              /\ dr' = Rebound(j, r)
              /\ out' = <<"select_one">>
    /\ UNCHANGED diceFrame
    /\ UNCHANGED solveVars

AllSubrolls ==
    /\ \E j \in 1..2 : \E k \in 1..Len(DiceRoll_all_subrolls(dr[3 - j])) :
          LET r == [raised |-> FALSE, result |-> DiceRoll_all_subrolls(dr[3 - j])[k]]
          IN  /\ Fits(r)
              /\ dr' = Rebound(j, r)
              /\ out' = <<"all_subrolls">>
    /\ UNCHANGED diceFrame
    /\ UNCHANGED solveVars

\* hash(x): the roll is used as a dictionary key
Hash ==
    /\ \E i \in 1..2 : dr' = [dr EXCEPT ![i] = DiceRoll_hash(dr[i])]
    /\ out' = <<"__hash__">>
    /\ UNCHANGED diceFrame
    /\ UNCHANGED solveVars

NextDice ==
    \/ Construct
    \/ Roll
    \/ Parse
    \/ Copy
    \/ Reroll
    \/ AddOne
    \/ SelectAll
    \/ SelectOne
    \/ AllSubrolls
    \/ Hash

SpecDice == InitDice /\ [][NextDice]_vars

(***************************************************************************)
(* The environment: YahtzeeRoll, YahtzeeScoresheet, YahtzeeGame.  A        *)
(* YahtzeeRoll is the tuple of the counts of its six faces; scores[c + 1]  *)
(* is the score of category c, NoScore for None.                           *)
(***************************************************************************)
YahtzeeRoll_is_n_kind(roll, n) == \E i \in 1..EnvSides : count(roll, i) >= n

\* the loop of is_full_house from face i on
RECURSIVE FullHouseScan(_, _, _, _)
FullHouseScan(roll, i, double, triple) ==
    IF i <= EnvSides /\ ~(double /\ triple) /\ count(roll, i) \in {0, 2, 3}
    THEN FullHouseScan(roll, i + 1, double \/ count(roll, i) = 2,
                       triple \/ count(roll, i) = 3)
    ELSE double /\ triple

YahtzeeRoll_is_full_house(roll) == FullHouseScan(roll, 1, FALSE, FALSE)

\* the loop of is_straight from face i on
RECURSIVE EnvStraightScan(_, _, _, _)
EnvStraightScan(roll, n, i, consec) ==
    IF i <= EnvSides /\ consec < n
    THEN EnvStraightScan(roll, n, i + 1, IF count(roll, i) > 0 THEN consec + 1 ELSE 0)
    ELSE consec = n

YahtzeeRoll_is_straight(roll, n) == EnvStraightScan(roll, n, 1, 0)

YahtzeeRoll_subroll(self, other) == \A elt \in 1..Len(self) : ~(count(other, elt) < self[elt])

\* YahtzeeScoresheet.__init__
Sheet_init ==
    [scores |-> [c \in 1..NumCategories |-> NoScore],
     upper_total |-> 0, upper_bonus |-> 0, lower_total |-> 0, yahtzee_bonus |-> 0,
     turns |-> 0]

Sheet_is_joker(self, roll) ==
    /\ YahtzeeRoll_is_n_kind(roll, 5)
    /\ self.scores[YAHTZEE + 1] # NoScore
    /\ self.scores[YAHTZEE + 1] > 0
    /\ self.scores[min_number(roll)] # NoScore

\* self.rules[cat](roll)
Sheet_rules(self, cat, roll) ==
    CASE cat < THREE_KIND -> (cat + 1) * count(roll, cat + 1)
      [] cat = THREE_KIND -> IF YahtzeeRoll_is_n_kind(roll, 3) THEN total(roll) ELSE 0
      [] cat = FOUR_KIND -> IF YahtzeeRoll_is_n_kind(roll, 4) THEN total(roll) ELSE 0
      [] cat = FULL_HOUSE ->
            IF YahtzeeRoll_is_full_house(roll) \/ Sheet_is_joker(self, roll)
            THEN 25 ELSE 0
      [] cat = SMALL_STRAIGHT ->
            IF YahtzeeRoll_is_straight(roll, 4) \/ Sheet_is_joker(self, roll)
            THEN 30 ELSE 0
      [] cat = LARGE_STRAIGHT ->
            IF YahtzeeRoll_is_straight(roll, 5) \/ Sheet_is_joker(self, roll)
            THEN 40 ELSE 0
      [] cat = CHANCE -> IF YahtzeeRoll_is_n_kind(roll, 1) THEN total(roll) ELSE 0
      [] cat = YAHTZEE -> IF YahtzeeRoll_is_n_kind(roll, 5) THEN 50 ELSE 0

\* is_marked: whether it raised, and whether cat is marked
Sheet_is_marked(self, cat) ==
    IF cat < 0 \/ cat >= Len(self.scores) THEN [raised |-> TRUE, result |-> FALSE]
    ELSE [raised |-> FALSE, result |-> self.scores[cat + 1] # NoScore]

\* score: whether it raised, and the points
Sheet_score(self, cat, roll) ==
    IF cat < 0 \/ cat > YAHTZEE THEN [raised |-> TRUE, result |-> NoScore]
    ELSE IF self.scores[cat + 1] # NoScore THEN [raised |-> TRUE, result |-> NoScore]
    ELSE [raised |-> FALSE, result |-> Sheet_rules(self, cat, roll)]

\* the three functions of self.totals, in their order
Sheet_totals(self, cat, roll, score) ==
    LET upper_total == IF cat < 6 THEN self.upper_total + score ELSE self.upper_total
        bonus == /\ cat # YAHTZEE
                 /\ YahtzeeRoll_is_n_kind(roll, 5)
                 /\ self.scores[YAHTZEE + 1] # NoScore
                 /\ self.scores[YAHTZEE + 1] > 0
    IN  [self EXCEPT !.upper_total = upper_total,
                     !.upper_bonus = IF cat < 6 /\ upper_total >= THRESHOLD
                                     THEN 35 ELSE @,
                     !.lower_total = IF cat >= 6 THEN @ + score ELSE @,
                     !.yahtzee_bonus = IF bonus THEN @ + 100 ELSE @]

\* mark without the test for a category already marked
Sheet_mark_again(self, cat, roll) ==
    IF cat < 0 \/ cat > YAHTZEE THEN [raised |-> TRUE, self |-> self]
    ELSE LET turn_score == Sheet_rules(self, cat, roll)
             scored == [self EXCEPT !.scores[cat + 1] = turn_score]
         IN  [raised |-> FALSE,
              self |-> [Sheet_totals(scored, cat, roll, turn_score) EXCEPT !.turns = @ + 1]]

\* mark: whether it raised and the sheet as the call leaves it
Sheet_mark(self, cat, roll) ==
    IF cat < 0 \/ cat > YAHTZEE THEN [raised |-> TRUE, self |-> self]
    ELSE IF self.scores[cat + 1] # NoScore THEN [raised |-> TRUE, self |-> self]
    ELSE LET turn_score == Sheet_rules(self, cat, roll)
             scored == [self EXCEPT !.scores[cat + 1] = turn_score]
         IN  [raised |-> FALSE,
              self |-> [Sheet_totals(scored, cat, roll, turn_score) EXCEPT !.turns = @ + 1]]

Sheet_grand_total(self) ==
    self.upper_total + self.upper_bonus + self.lower_total + self.yahtzee_bonus

Sheet_game_over(self) == self.turns = Len(self.scores)


\* the values random.choice returns for n dice, lowest first: any of the first MaxFace
\* faces during the first FreeTurns turns of a game, the first face afterwards
Outcomes(n, turns) ==
    IF n <= 0 THEN {<<>>}
    ELSE IF turns < FreeTurns
    THEN {[k \in 1..n |-> c[k] - 1] : c \in Range(Combinations(1, MaxFace, n))}
    ELSE {[k \in 1..n |-> 0]}

\* YahtzeeRoll() followed by reroll(): add_random(5 - size)
YahtzeeRoll_reroll(roll, elts) == EnvFreqAdd(roll, elts)

\* YahtzeeGame.__init__
YahtzeeGame_init(elts) ==
    [sheet |-> Sheet_init, roll |-> YahtzeeRoll_reroll(Multiset(EnvSides), elts), rerolls |-> 2]

\* the dice are rerolled before the keep is compared with the roll
YahtzeeGame_make_move_reroll_first(self, action, elts) ==
    IF self.rerolls > 0 /\ action[1] = "roll"
    THEN LET grown == [self EXCEPT !.roll = YahtzeeRoll_reroll(action[2], elts),
                                   !.rerolls = @ - 1]
         IN  [raised |-> ~YahtzeeRoll_subroll(action[2], self.roll), self |-> grown]
    ELSE [raised |-> TRUE, self |-> self]

\* a new roll and two rerolls after every mark, the last one included
YahtzeeGame_make_move_always_reset(self, action, elts) ==
    IF self.rerolls > 0
    THEN IF action[1] # "roll" \/ ~YahtzeeRoll_subroll(action[2], self.roll)
         THEN [raised |-> TRUE, self |-> self]
         ELSE [raised |-> FALSE,
               self |-> [self EXCEPT !.roll = YahtzeeRoll_reroll(action[2], elts),
                                     !.rerolls = @ - 1]]
    ELSE IF action[1] # "cat" THEN [raised |-> TRUE, self |-> self]
    ELSE LET m == Sheet_mark(self.sheet, action[2], self.roll)
         IN  IF m.raised THEN [raised |-> TRUE, self |-> self]
             ELSE [raised |-> FALSE,
                   self |-> [sheet |-> m.self,
                             roll |-> YahtzeeRoll_reroll(Multiset(EnvSides),
                                                         [k \in 1..EnvDice |-> 0]),
                             rerolls |-> 2]]

\* make_move: action is <<"roll", keep>> or <<"cat", index>>; elts are the values
\* random.choice returns; whether it raised and the game as the call leaves it
YahtzeeGame_make_move(self, action, elts) ==
    IF self.rerolls > 0
    THEN IF action[1] # "roll" THEN [raised |-> TRUE, self |-> self]
         ELSE IF ~YahtzeeRoll_subroll(action[2], self.roll)
         THEN [raised |-> TRUE, self |-> self]
         ELSE [raised |-> FALSE,
               self |-> [self EXCEPT !.roll = YahtzeeRoll_reroll(action[2], elts),
                                     !.rerolls = @ - 1]]
    ELSE IF action[1] # "cat" THEN [raised |-> TRUE, self |-> self]
    ELSE LET m == Sheet_mark(self.sheet, action[2], self.roll)
         IN  IF m.raised THEN [raised |-> TRUE, self |-> self]
             ELSE IF ~Sheet_game_over(m.self)
             THEN [raised |-> FALSE,
                   self |-> [sheet |-> m.self,
                             roll |-> YahtzeeRoll_reroll(Multiset(EnvSides), elts),
                             rerolls |-> 2]]
             ELSE [raised |-> FALSE, self |-> [self EXCEPT !.sheet = m.self]]

\* the dice make_move rolls: those the keep lacks, or five after a mark
Rolled(self, action) ==
    IF self.rerolls > 0
    THEN IF action[1] = "roll" THEN EnvDice - size(action[2]) ELSE 0
    ELSE IF action[1] = "cat" /\ self.sheet.turns + 1 < Len(self.sheet.scores)
         THEN EnvDice ELSE 0

\* the categories not marked, lowest first
Unmarked(card) ==
    SelectSeq([c \in 1..Len(card.scores) |-> c - 1],
              LAMBDA c : card.scores[c + 1] = NoScore)

\* the categories a player picks: the first MaxPick that are not marked
Picks(card) == {Unmarked(card)[k] : k \in 1..(IF Len(Unmarked(card)) < MaxPick THEN Len(Unmarked(card)) ELSE MaxPick)}

\* one pass of the loop of play_solitaire from the position `self`: the policy
\* answers `action`, a keep before a reroll and a category after the last
play_solitaire_step(self, action, elts) ==
    IF self.rerolls > 0
    THEN IF ~YahtzeeRoll_subroll(action[2], self.roll)
         THEN [raised |-> TRUE, self |-> self]
         ELSE [raised |-> FALSE,
               self |-> [self EXCEPT !.roll = YahtzeeRoll_reroll(action[2], elts),
                                     !.rerolls = @ - 1]]
    ELSE LET m == Sheet_mark(self.sheet, action[2], self.roll)
         IN  IF m.raised THEN [raised |-> TRUE, self |-> self]
             ELSE IF ~Sheet_game_over(m.self)
             THEN [raised |-> FALSE,
                   self |-> [sheet |-> m.self,
                             roll |-> YahtzeeRoll_reroll(Multiset(EnvSides), elts),
                             rerolls |-> 2]]
             ELSE [raised |-> FALSE, self |-> [self EXCEPT !.sheet = m.self]]

\* the rolls with the dice of `roll` and one die more
OneMore(roll) == {[roll EXCEPT ![f] = @ + 1] : f \in 1..(MaxFace + 1)}

\* the rolls made of dice of `roll`: their counts from face i on
RECURSIVE SubrollsFrom(_, _)
SubrollsFrom(roll, i) ==
    IF i > Len(roll) THEN {<<>>}
    ELSE {<<c>> \o t : c \in 0..roll[i], t \in SubrollsFrom(roll, i + 1)}

Subrolls(roll) == SubrollsFrom(roll, 1)

\* the keeps a player offers: every subroll, and the rolls one die away from one
Keeps(roll) ==
    Subrolls(roll) \union UNION {OneMore(k) : k \in {roll, Multiset(EnvSides)}}

\* the categories a player offers: the picks, a marked one and the two next to the sheet
Offers(card) ==
    Picks(card) \union {-1, Len(card.scores)}
    \union {c \in {0} : card.scores[c + 1] # NoScore}

\* the actions offered to a game: of the kind its position asks for, and one of the other
Actions(self) ==
    IF self.rerolls > 0
    THEN {<<"roll", k>> : k \in Keeps(self.roll)} \union {<<"cat", 0>>}
    ELSE {<<"cat", c>> : c \in Offers(self.sheet)} \union {<<"roll", self.roll>>}

Legal(self, action) ==
    IF self.rerolls > 0
    THEN action[1] = "roll" /\ YahtzeeRoll_subroll(action[2], self.roll)
    ELSE /\ action[1] = "cat"
         /\ action[2] \in 0..(Len(self.sheet.scores) - 1)
         /\ self.sheet.scores[action[2] + 1] = NoScore

(***************************************************************************)
(* A game of the environment: a YahtzeeGame driven by calls of make_move,  *)
(* or the game play_solitaire plays with a policy; arg names the driver.   *)
(***************************************************************************)
InitGame ==
    /\ game = StandardYahtzee(MaxThresh, PlaySides)
    /\ anchor = <<UNUSED, 0, 0>>
    /\ sheet = [upper |-> 0, ub |-> 0]
    /\ last = NoMove
    /\ NoSolve
    /\ ms = <<>>
    /\ dr = <<>>
    /\ arg \in {"make_move", "play_solitaire"}
    /\ out = <<>>
    /\ \E elts \in Outcomes(EnvDice, 0) : games = <<YahtzeeGame_init(elts)>>
    /\ turn = 0
    /\ moves = 0

gameFrame == <<game, anchor, sheet, last, values, seeded, cursor, pc,
               component_values, pidx, result, written, ref, ms, dr, arg, turn>>

MakeMove ==
    /\ arg = "make_move"
    /\ ~Sheet_game_over(games[1].sheet)
    /\ \E action \in Actions(games[1]) :
         \E elts \in Outcomes(Rolled(games[1], action), games[1].sheet.turns
                                  + (IF games[1].rerolls = 0 THEN 1 ELSE 0)) :
            LET r == YahtzeeGame_make_move(games[1], action, elts)
            IN  /\ games' = <<r.self>>
                /\ moves' = IF r.raised THEN moves ELSE moves + 1
                /\ out' = <<"make_move", r.raised, action>>
    /\ UNCHANGED gameFrame

PlaySolitaire ==
    /\ arg = "play_solitaire"
    /\ ~Sheet_game_over(games[1].sheet)
    /\ IF Len(out) = 0 THEN TRUE ELSE ~out[2]
    /\ \E action \in {a \in Actions(games[1]) : a[1] = (IF games[1].rerolls > 0
                                                          THEN "roll" ELSE "cat")} :
         \E elts \in Outcomes(Rolled(games[1], action), games[1].sheet.turns
                                  + (IF games[1].rerolls = 0 THEN 1 ELSE 0)) :
            LET r == play_solitaire_step(games[1], action, elts)
            IN  /\ games' = <<r.self>>
                /\ moves' = IF r.raised THEN moves ELSE moves + 1
                /\ out' = <<"play_solitaire", r.raised, action>>
    /\ UNCHANGED gameFrame

NextGame == MakeMove \/ PlaySolitaire

SpecGame == InitGame /\ [][NextGame]_vars

(***************************************************************************)
(* The meta-actions of util.py and the selections of YahtzeeRoll they use. *)
(* A call that raises gives <<"ValueError">>, a selection gives the roll.  *)
(***************************************************************************)
YahtzeeRoll_longest_runs(roll) == LongestRunsFrom(roll, 1, <<>>, 0, 0)

\* YahtzeeRoll.select_one: the numbers kept are written as a string and parsed
YahtzeeRoll_select_one(roll, nums) ==
    IF \E i \in 1..Len(nums) : nums[i] < 1 \/ nums[i] > EnvSides THEN <<"ValueError">>
    ELSE LET keep == SelectOneKeep(roll, nums, 1)
         IN  YahtzeeRoll_parse(Concat([k \in 1..Len(keep) |-> str(keep[k])]))

select_for_chance(roll, rerolls) ==
    IF rerolls = 2 THEN YahtzeeRoll_select_all(roll, <<5, 6>>, <<5>>)
    ELSE YahtzeeRoll_select_all(roll, <<4, 5, 6>>, <<5>>)

select_for_full_house(roll) ==
    YahtzeeRoll_select_all(roll, SelectSeq(RangeList(1, 6), LAMBDA i : count(roll, i) >= 2),
                           <<3>>)

\* the numbers of a run whose upper categories are not marked
OpenIn(card, run) ==
    Len(SelectSeq(run, LAMBDA n : ~Sheet_is_marked(card, n - 1).result))

select_for_straight(roll, card) ==
    IF ~Sheet_is_marked(card, SMALL_STRAIGHT).result
    THEN LET runs == YahtzeeRoll_longest_runs(roll)
         IN  IF Len(runs) = 0 THEN <<"IndexError">>
             ELSE IF Len(runs[1]) >= 3 THEN YahtzeeRoll_select_one(roll, runs[1])
             ELSE IF /\ Len(runs) > 1
                     /\ \/ ~Sheet_is_marked(card, CHANCE).result
                        \/ OpenIn(card, runs[2]) > OpenIn(card, runs[1])
             THEN YahtzeeRoll_select_one(roll, runs[2])
             ELSE YahtzeeRoll_select_one(roll, runs[1])
    ELSE LET low == YahtzeeRoll_select_one(roll, RangeList(1, 5))
             high == YahtzeeRoll_select_one(roll, RangeList(2, 6))
         IN  IF size(low) > size(high) THEN low ELSE high

\* the loop of select_for_n_kind over the faces: the last of the most frequent
most_freq(roll) ==
    CHOOSE i \in 1..EnvSides :
       /\ \A j \in 1..EnvSides : count(roll, j) <= count(roll, i)
       /\ \A j \in (i + 1)..EnvSides : count(roll, j) < count(roll, i)

select_for_n_kind(roll, card, rerolls) ==
    LET y_zero == /\ Sheet_is_marked(card, YAHTZEE).result
                  /\ card.scores[YAHTZEE + 1] = 0
        max_keep == IF ~Sheet_is_marked(card, FOUR_KIND).result /\ y_zero THEN 4
                    ELSE IF /\ ~Sheet_is_marked(card, THREE_KIND).result
                            /\ Sheet_is_marked(card, FOUR_KIND).result
                            /\ y_zero
                    THEN 3 ELSE 5
        have == IF max_keep = 3 THEN Sheet_score(card, THREE_KIND, roll)
                ELSE IF max_keep = 4 THEN Sheet_score(card, FOUR_KIND, roll)
                ELSE [raised |-> FALSE, result |-> 0]
        high == RangeList(3 + rerolls, 6)
    IN  IF have.raised THEN <<"ValueError">>
        ELSE IF have.result > 0
        THEN YahtzeeRoll_select_all(roll,
                <<most_freq(roll)>> \o SelectSeq(high, LAMBDA i : i # most_freq(roll)),
                IF \E k \in 1..Len(high) : high[k] = most_freq(roll)
                THEN <<5>> ELSE <<max_keep>>)
        ELSE YahtzeeRoll_select_all(roll, <<most_freq(roll)>>, <<max_keep>>)

\* best_cat: <<the category>>, or <<>> for None
best_cat(card, roll, cats, throw_away_cats) ==
    LET valid_cats == SelectSeq(cats, LAMBDA c : ~Sheet_is_marked(card, c).result)
        points(c) == Sheet_score(card, c, roll).result
        best == CHOOSE k \in 1..Len(valid_cats) :
                   /\ \A j \in 1..Len(valid_cats) : points(valid_cats[j]) <= points(valid_cats[k])
                   /\ \A j \in 1..(k - 1) : points(valid_cats[j]) < points(valid_cats[k])
        thrown == SelectSeq(throw_away_cats,
                            LAMBDA c : \E k \in 1..Len(valid_cats) : valid_cats[k] = c)
    IN  IF Len(valid_cats) = 0 THEN <<>>
        ELSE IF points(valid_cats[best]) > 0 THEN <<valid_cats[best]>>
        ELSE IF Len(thrown) > 0 THEN <<thrown[1]>>
        ELSE <<>>

\* meta_action_to_cat that answers with the category asked for, marked or not
meta_action_to_cat_marked(card, roll, output_index, pick) ==
    LET asked ==
           IF output_index >= 0 /\ output_index < N_KIND_OUTPUT_INDEX THEN output_index
           ELSE IF output_index = N_KIND_OUTPUT_INDEX THEN THREE_KIND
           ELSE IF output_index = FH_OUTPUT_INDEX THEN FULL_HOUSE
           ELSE IF output_index = STRAIGHT_OUTPUT_INDEX THEN SMALL_STRAIGHT
           ELSE CHANCE
    IN  IF output_index < 0 \/ output_index > CHANCE_OUTPUT_INDEX
        THEN [raised |-> TRUE, result |-> <<"cat", NoScore>>]
        ELSE [raised |-> FALSE, result |-> <<"cat", asked>>]

\* meta_action_to_cat; pick is what random.choice returns, drawn from the
\* categories not marked; whether it raised and the category
meta_action_to_cat(card, roll, output_index, pick) ==
    LET only(c) == IF Sheet_is_marked(card, c).result THEN <<>> ELSE <<c>>
        yahtzee_cat ==
           IF output_index >= 0 /\ output_index < N_KIND_OUTPUT_INDEX
           THEN only(output_index)
           ELSE IF output_index = N_KIND_OUTPUT_INDEX
           THEN best_cat(card, roll, <<YAHTZEE, FOUR_KIND, THREE_KIND>>,
                         <<FOUR_KIND, YAHTZEE, THREE_KIND>>)
           ELSE IF output_index = FH_OUTPUT_INDEX THEN only(FULL_HOUSE)
           ELSE IF output_index = STRAIGHT_OUTPUT_INDEX
           THEN best_cat(card, roll, <<LARGE_STRAIGHT, SMALL_STRAIGHT>>,
                         <<LARGE_STRAIGHT, SMALL_STRAIGHT>>)
           ELSE only(CHANCE)
    IN  IF output_index < 0 \/ output_index > CHANCE_OUTPUT_INDEX
        THEN [raised |-> TRUE, result |-> <<"cat", NoScore>>]
        ELSE IF yahtzee_cat # <<>>
        THEN [raised |-> FALSE, result |-> <<"cat", yahtzee_cat[1]>>]
        ELSE IF Len(Unmarked(card)) = 0
        THEN [raised |-> TRUE, result |-> <<"cat", NoScore>>]
        ELSE [raised |-> FALSE, result |-> <<"cat", pick>>]

\* meta_action_to_roll: whether it raised and the keep
meta_action_to_roll(card, roll, rerolls, output_index) ==
    LET keep ==
           IF output_index >= 0 /\ output_index < N_KIND_OUTPUT_INDEX
           THEN YahtzeeRoll_select_all(roll, <<output_index + 1>>, <<5>>)
           ELSE IF output_index = N_KIND_OUTPUT_INDEX
           THEN select_for_n_kind(roll, card, rerolls)
           ELSE IF output_index = FH_OUTPUT_INDEX THEN select_for_full_house(roll)
           ELSE IF output_index = STRAIGHT_OUTPUT_INDEX THEN select_for_straight(roll, card)
           ELSE IF output_index = CHANCE_OUTPUT_INDEX THEN select_for_chance(roll, rerolls)
           ELSE <<"ValueError">>
    IN  IF Len(keep) = 1 THEN [raised |-> TRUE, result |-> <<"roll", roll>>]
        ELSE [raised |-> FALSE, result |-> <<"roll", keep>>]

convert_meta_action(card, roll, rerolls, meta_action, pick) ==
    IF rerolls = 0 THEN meta_action_to_cat(card, roll, meta_action, pick)
    ELSE meta_action_to_roll(card, roll, rerolls, meta_action)

(***************************************************************************)
(* YahtzeeEnv: games is self.games, turn is self.turn.                     *)
(***************************************************************************)
\* a step that leaves self.turn alone
YahtzeeEnv_step_same_turn(gs, t, converted, elts) ==
    LET g == gs[t + 1]
        r == YahtzeeGame_make_move(g, converted.result, elts)
        after == [gs EXCEPT ![t + 1] = r.self]
    IN  IF Sheet_game_over(g.sheet)
        THEN [raised |-> FALSE, games |-> gs, turn |-> t, done |-> TRUE, moved |-> FALSE]
        ELSE IF converted.raised \/ r.raised
        THEN [raised |-> TRUE, games |-> gs, turn |-> t, done |-> FALSE, moved |-> FALSE]
        ELSE [raised |-> FALSE, games |-> after, turn |-> t,
              done |-> \A i \in 1..Len(after) : Sheet_game_over(after[i].sheet),
              moved |-> TRUE]

\* YahtzeeEnv.step once the action is converted: what it returns and leaves
YahtzeeEnv_step(gs, t, converted, elts) ==
    LET g == gs[t + 1]
        passed == IF g.rerolls = 0 THEN (t + 1) % Len(gs) ELSE t
        r == YahtzeeGame_make_move(g, converted.result, elts)
        after == [gs EXCEPT ![t + 1] = r.self]
    IN  IF Sheet_game_over(g.sheet)
        THEN [raised |-> FALSE, games |-> gs, turn |-> passed, done |-> TRUE, moved |-> FALSE]
        ELSE IF converted.raised \/ r.raised
        THEN [raised |-> TRUE, games |-> gs, turn |-> passed, done |-> FALSE, moved |-> FALSE]
        ELSE [raised |-> FALSE, games |-> after, turn |-> passed,
              done |-> \A i \in 1..Len(after) : Sheet_game_over(after[i].sheet),
              moved |-> TRUE]


\* the dice show any face only in the first turns of the first player
EnvOutcomes(n, p, turns) == Outcomes(n, IF p = 0 THEN turns ELSE FreeTurns)

\* the meta-actions an agent answers with: any of them in the first turn of the
\* first player, the first of them afterwards
Metas(p, turns) ==
    IF p = 0 /\ turns = 0 THEN 0..(OUTPUT_SIZE - 1) ELSE {0}

\* what random.choice returns from the categories not marked
EnvPicks(p, card) ==
    IF Len(Unmarked(card)) = 0 THEN {NoScore}
    ELSE IF p = 0 /\ card.turns < FreeTurns THEN Picks(card)
    ELSE {Unmarked(card)[1]}

InitEnv ==
    /\ game = StandardYahtzee(MaxThresh, PlaySides)
    /\ anchor = <<UNUSED, 0, 0>>
    /\ sheet = [upper |-> 0, ub |-> 0]
    /\ last = NoMove
    /\ NoSolve
    /\ ms = <<>>
    /\ dr = <<>>
    /\ arg = "env"
    /\ out = <<>>
    /\ \E num_players \in 1..MaxPlayers :
          \E elts \in Outcomes(EnvDice, 0) :
             games = [p \in 1..num_players |->
                        YahtzeeGame_init(IF p = 1 THEN elts ELSE [k \in 1..EnvDice |-> 0])]
    /\ turn = 0
    /\ moves = 0

envFrame == <<game, anchor, sheet, last, values, seeded, cursor, pc,
              component_values, pidx, result, written, ref, ms, dr, arg>>

Step ==
    /\ arg = "env"
    /\ IF Len(out) = 0 THEN TRUE ELSE ~out[2]
    /\ \E meta_action \in Metas(turn, games[turn + 1].sheet.turns) :
         \E pick \in EnvPicks(turn, games[turn + 1].sheet) :
            LET g == games[turn + 1]
                converted == convert_meta_action(g.sheet, g.roll, g.rerolls, meta_action, pick)
            IN  \E elts \in EnvOutcomes(IF converted.raised THEN 0
                                        ELSE Rolled(g, converted.result),
                                        turn, g.sheet.turns
                                              + (IF g.rerolls = 0 THEN 1 ELSE 0)) :
                   LET r == YahtzeeEnv_step(games, turn, converted, elts)
                   IN  /\ games' = r.games
                       /\ turn' = r.turn
                       /\ moves' = IF r.raised THEN moves ELSE moves + 1
                       /\ out' = <<"step", r.done, r.raised, r.moved,
                                    meta_action, converted.result>>
    /\ UNCHANGED envFrame

\* reset, called as trainer.py and game.py call it: before the first step of an
\* environment and after a step has returned done
Reset ==
    /\ arg = "env"
    /\ Len(out) > 0
    /\ out[2]
    /\ \E elts \in Outcomes(EnvDice, 0) :
          games' = [p \in 1..Len(games) |->
                      YahtzeeGame_init(IF p = 1 THEN elts ELSE [k \in 1..EnvDice |-> 0])]
    /\ moves' = 0
    /\ out' = <<>>
    /\ UNCHANGED <<envFrame, turn>>

NextEnv == Step \/ Reset

SpecEnv == InitEnv /\ [][NextEnv]_vars

(***************************************************************************)
(* A game scored on the scoresheet of the environment and, with the same   *)
(* rolls and categories, by the standard rule set of the solver: games[1]  *)
(* is the YahtzeeGame at the end of a turn, anchor the anchor of the       *)
(* solver after the same history.                                          *)
(***************************************************************************)
\* the complete rolls of the environment
CompleteRolls == Range(RollsOfSize(EnvDice, EnvSides))

\* the rolls the turns of a history end with: five of the lowest face, a run of the
\* lowest faces, and with MaxMarked the same from the highest face down
HistoryRolls ==
    {[f \in 1..EnvSides |-> IF f = 1 THEN EnvDice ELSE 0],
     [f \in 1..EnvSides |-> IF f <= EnvDice THEN 1 ELSE 0]}
    \union {[f \in 1..EnvSides |-> IF f = EnvSides THEN EnvDice ELSE 0] : k \in 3..MaxMarked}

InitTurn ==
    /\ game = StandardYahtzee(THRESHOLD, EnvSides)
    /\ anchor = <<UNUSED, 0, 0>>
    /\ sheet = [upper |-> 0, ub |-> 0]
    /\ last = NoMove
    /\ NoSolve
    /\ ms = <<>>
    /\ dr = <<>>
    /\ arg = "turn"
    /\ out = <<>>
    /\ games \in {<<[sheet |-> Sheet_init, roll |-> roll, rerolls |-> 0]>> :
                     roll \in HistoryRolls}
    /\ turn = 0
    /\ moves = 0

\* the end of a turn: make_move marks the category on the scoresheet, update gives
\* the anchor that follows; out holds what each of them added to the score
EndTurn ==
    /\ arg = "turn"
    /\ moves < MaxMarked
    /\ \E cat \in Range(Unmarked(games[1].sheet)) :
         \E next_roll \in HistoryRolls :
            LET r == YahtzeeGame_make_move(games[1], <<"cat", cat>>, <<>>)
                u == update(game, anchor, games[1].roll, cat)
            IN  /\ ~r.raised
                /\ games' = <<[sheet |-> r.self.sheet, roll |-> next_roll, rerolls |-> 0]>>
                /\ anchor' = u.succ
                /\ out' = <<"mark", Sheet_grand_total(r.self.sheet)
                                      - Sheet_grand_total(games[1].sheet), u.score>>
                /\ moves' = moves + 1
    /\ UNCHANGED <<game, sheet, last, values, seeded, cursor, pc,
                   component_values, pidx, result, written, ref, ms, dr, arg, turn>>

NextTurn == EndTurn

SpecTurn == InitTurn /\ [][NextTurn]_vars

(***************************************************************************)
(* Properties                                                              *)
(***************************************************************************)
ThisGameTuples == AnchorTuples(game)

NonYahtzee == 0..(num_categories(game) - 2)

Solving == pc \in {"loop", "component"} /\ cursor < AnchorCount(game)

\* C1: whenever solve is at a non-terminal tuple, each successor of the tuple (any
\* complete roll, any category of unused_categories) was taken from the product at
\* an earlier iteration and its slot holds a value, not the sentinel.
C1_SuccessorsVisitedBefore ==
    (/\ Solving
     /\ pc = "component" => pidx <= Len(complete_rolls(game))
     /\ ~is_terminal_anchor(game, VisitedTuple)) =>
        \A roll \in Range(complete_rolls(game)) :
            \A cat \in Range(unused_categories(game, VisitedTuple)) :
                LET succ == update(game, VisitedTuple, roll, cat).succ
                IN  /\ \E k \in 0..(cursor - 1) : ProductTuple(game, k) = succ
                    /\ ~IsNaN(values[tuple_to_index(game, succ)])

\* solve_component of the initial anchor, the last of the iteration, has read its successors
C1_Witness ==
    /\ pc = "component"
    /\ VisitedTuple = <<UNUSED, 0, 0>>
    /\ pidx = Len(complete_rolls(game))
    /\ Len(game.categories) >= 3
    /\ seeded = {}

\* C2: in a solve from a fresh table every value stored equals the reference
\* expectimax value of its anchor, and solve returns that of the initial anchor.
C2_ValuesAreOptimal ==
    (seeded = {} /\ pc \in {"loop", "done"}) =>
        /\ \A a \in ThisGameTuples :
              \/ IsNaN(values[tuple_to_index(game, a)])
              \/ values[tuple_to_index(game, a)] = ref[a]
        /\ pc = "done" =>
              /\ \A a \in ThisGameTuples : values[tuple_to_index(game, a)] = ref[a]
              /\ result = ref[<<UNUSED, 0, 0>>]

\* a fresh solve of a rule set with two dice has returned a positive value
C2_Witness ==
    /\ pc = "done"
    /\ seeded = {}
    /\ game.num_dice >= 2
    /\ Len(game.categories) >= 3
    /\ result > 0

GameRolls == Range(complete_rolls(game)) \cup Range(partial_rolls(game))

\* C3: every key a position of solve_component reads is in the map already: for a
\* complete roll with rerolls left, (r-1, keep) for the complete keep and (r, keep)
\* for every partial keep; for a partial roll, (r-1, roll+die) exactly when roll+die
\* is complete and (r, roll+die) otherwise; the final key exists; no lookup misses.
C3_ReadsFollowWrites ==
    /\ pc /= "KeyError"
    /\ pc = "component" =>
         IF pidx <= Len(Positions(game))
         THEN LET r == Positions(game)[pidx][1]
                  roll == Positions(game)[pidx][2]
              IN  /\ ComponentReads(game, VisitedTuple, Positions(game)[pidx])
                        \subseteq DOMAIN component_values
                  /\ (r > 0 /\ size(roll) = game.num_dice) =>
                        \A keep \in {k \in GameRolls : subroll(k, roll)} :
                            IF size(keep) = game.num_dice
                            THEN <<r - 1, keep>> \in DOMAIN component_values
                            ELSE <<r, keep>> \in DOMAIN component_values
                  /\ size(roll) < game.num_dice =>
                        \A x \in 1..game.num_sides :
                            IF size(roll) + 1 = game.num_dice
                            THEN <<r - 1, add_one(roll, x)>> \in DOMAIN component_values
                            ELSE <<r, add_one(roll, x)>> \in DOMAIN component_values
         ELSE <<Rerolls + 1, Multiset(game.num_sides)>> \in DOMAIN component_values

\* a component of a rule set with two dice or more is through all its positions
C3_Witness ==
    /\ pc = "component"
    /\ game.num_dice >= 2
    /\ pidx > Len(Positions(game))
    /\ Cardinality(DOMAIN component_values) = Len(Positions(game))

\* C4: tuple_to_index is injective on the anchor tuples and its image is every
\* integer from 0 to maximum_index().
C4_IndexDense ==
    LET image == {tuple_to_index(game, a) : a \in ThisGameTuples}
    IN  /\ Cardinality(image) = Cardinality(ThisGameTuples)
        /\ image = 0..maximum_index(game)

AnchorStep ==
    /\ \/ /\ \E cat \in NonYahtzee :
                /\ ~is_used_by_index(game, anchor, cat)
                /\ anchor'[3] = anchor[3] + Pow(2, cat)
          /\ anchor'[1] = anchor[1]
       \/ /\ anchor'[3] = anchor[3]
          /\ anchor[1] = UNUSED
          /\ anchor'[1] \in {ZERO, NONZERO}
          /\ anchor'[2] = anchor[2]
    /\ \A cat \in NonYahtzee :
          is_used_by_index(game, anchor, cat) => is_used_by_index(game, anchor', cat)
    /\ (anchor[1] /= UNUSED) => (anchor'[1] = anchor[1])
    /\ anchor'[2] >= anchor[2]
    /\ anchor'[2] <= game.ub_level

\* C5: a scoring sets exactly one bit of used_mask that was clear and leaves the flag,
\* or leaves used_mask and takes the flag from unused to zero or nonzero; no bit is
\* lost, a flag that is not unused stays, upper_total does not decrease and stays
\* within the threshold.
C5_AnchorMonotone == [][AnchorStep]_vars

\* a game is over with a nonzero Yahtzee and the upper total at the threshold
C5_Witness ==
    /\ pc = "none"
    /\ game.ub_level > 1
    /\ is_terminal_anchor(game, anchor)
    /\ anchor[1] = NONZERO
    /\ anchor[2] = game.ub_level
    /\ sheet.upper > game.ub_level

\* C6: unused_categories lists, without duplicates, exactly the categories that are
\* not used, the Yahtzee category first while the flag is unused; the list is empty
\* exactly for the terminal anchors.
C6_UnusedCategories ==
    LET list == unused_categories(game, anchor)
    IN  /\ \A i, j \in 1..Len(list) : list[i] = list[j] => i = j
        /\ Range(list) = {c \in 0..(num_categories(game) - 1) :
                             ~is_used_by_index(game, anchor, c)}
        /\ anchor[1] = UNUSED => list[1] = num_categories(game) - 1
        /\ (list = <<>>) <=> is_terminal_anchor(game, anchor)
        /\ (list = <<>>) <=> (anchor[1] /= UNUSED /\ \A c \in NonYahtzee :
                                                        (anchor[3] \div Pow(2, c)) % 2 = 1)

\* Yahtzee was offered and scored while other categories were unused too
C6_Witness ==
    /\ last /= NoMove
    /\ last.cat = num_categories(game) - 1
    /\ Len(unused_categories(game, last.from)) > 2
    /\ last.succ[1] = NONZERO

BonusOnSheet ==
    /\ sheet.ub \in {0, UbValue}
    /\ (sheet.ub = UbValue) <=> (sheet.upper >= game.ub_level)

BonusStep ==
    /\ (sheet'.ub = sheet.ub + UbValue)
          <=> (anchor[2] < game.ub_level /\ anchor'[2] >= game.ub_level)
    /\ (sheet'.ub /= sheet.ub) =>
          /\ sheet'.ub = sheet.ub + UbValue
          /\ sheet'.upper > sheet.upper
          /\ \E cat \in NonYahtzee :
                /\ game.categories[cat + 1].kind = "upper"
                /\ anchor'[3] = anchor[3] + Pow(2, cat)

\* C7: the upper bonus is on the sheet at most once; a scoring adds it exactly when
\* it takes upper_total from below the threshold to the threshold; the bonus is on
\* the sheet exactly when the unclamped sum of the upper points has reached the
\* threshold, in particular when the game is over.
C7_UpperBonusOnce == []BonusOnSheet /\ [][BonusStep]_vars

\* a game is over after upper points were scored beyond the threshold
C7_Witness ==
    /\ pc = "none"
    /\ is_terminal_anchor(game, anchor)
    /\ sheet.ub = UbValue
    /\ sheet.upper > game.ub_level + 1
    /\ game.ub_level > 1

FiveOfAKind(roll) == \E f \in 1..Len(roll) : roll[f] = 5

FaceOfAKind(roll) == CHOOSE f \in 1..Len(roll) : roll[f] = 5

JokerCategory(cat) == game.categories[cat + 1].kind \in {"full_house", "straight"}

FixedValue(cat) ==
    IF game.categories[cat + 1].kind = "full_house" THEN FhValue
    ELSE IF game.categories[cat + 1].n = 4 THEN SsValue ELSE LsValue

\* what the roll scores in the category by itself
OrdinaryScore(cat, roll) ==
    IF game.categories[cat + 1].kind = "full_house"
    THEN (IF \E f, h \in 1..Len(roll) : f /= h /\ roll[f] = 3 /\ roll[h] = 2
          THEN FhValue ELSE 0)
    ELSE (IF \E f \in 1..Len(roll) :
                \A i \in 0..(game.categories[cat + 1].n - 1) : count(roll, f + i) > 0
          THEN FixedValue(cat) ELSE 0)

\* C8: five of a kind scored in full house, small straight or large straight is
\* awarded the fixed value by the joker only if the flag is nonzero and the upper
\* category of the face is used; with the flag unused or zero it gets its ordinary
\* score.
C8_JokerNeedsNonzeroYahtzee ==
    (last /= NoMove /\ JokerCategory(last.cat) /\ FiveOfAKind(last.roll)) =>
        /\ last.points[last.cat] = FixedValue(last.cat) =>
              /\ last.from[1] = NONZERO
              /\ is_used_by_index(game, last.from, FaceOfAKind(last.roll) - 1)
        /\ last.from[1] \in {UNUSED, ZERO} =>
              last.points[last.cat] = OrdinaryScore(last.cat, last.roll)

\* C9: for a category other than Yahtzee the points hold the Yahtzee bonus exactly
\* when the flag was nonzero and the roll is five of a kind; scoring the Yahtzee
\* category never awards it.
C9_YahtzeeBonus ==
    last /= NoMove =>
        /\ YbSlot \in DOMAIN last.points => last.points[YbSlot] = YBonus
        /\ last.cat /= num_categories(game) - 1 =>
              ((YbSlot \in DOMAIN last.points)
                  <=> (last.from[1] = NONZERO /\ FiveOfAKind(last.roll)))
        /\ last.cat = num_categories(game) - 1 => YbSlot \notin DOMAIN last.points
        /\ last.score = last.points[last.cat]
                          + (IF YbSlot \in DOMAIN last.points THEN YBonus ELSE 0)
                          + (IF UbSlot \in DOMAIN last.points THEN UbValue ELSE 0)

\* five of a kind scored in an upper category after a nonzero Yahtzee
C9_Witness ==
    /\ last /= NoMove
    /\ last.from[1] = NONZERO
    /\ FiveOfAKind(last.roll)
    /\ game.categories[last.cat + 1].kind = "upper"
    /\ YbSlot \in DOMAIN last.points
    /\ last.score >= YBonus

\* C10: solve assigns no seeded slot and calls solve_component for no seeded
\* anchor, and when it returns every anchor has its value of the fresh solve.
C10_SeededSolve ==
    /\ written \cap seeded = {}
    /\ pc = "component" => VisitedIndex \notin seeded
    /\ pc = "loop" =>
          \A a \in ThisGameTuples :
              tuple_to_index(game, a) \in seeded => values[tuple_to_index(game, a)] = ref[a]
    /\ pc = "done" =>
          /\ \A a \in ThisGameTuples : values[tuple_to_index(game, a)] = ref[a]
          /\ written = {tuple_to_index(game, a) : a \in ThisGameTuples} \ seeded

\* a solve from a table seeded with the slot of a non-terminal anchor has returned
C10_Witness ==
    /\ pc = "done"
    /\ written /= {}
    /\ \E a \in ThisGameTuples :
          /\ tuple_to_index(game, a) \in seeded
          /\ ~is_terminal_anchor(game, a)
          /\ ref[a] > 0

\* C11: an entry of the component map for the end of a turn is stored only when every
\* slot of the table read for it holds a solved value, and the table never receives
\* NaN from a component: reading an unsolved slot must end the run instead.
C11_UnsolvedSlotIsFatal ==
    /\ pc \in {"component", "loop"} =>
          \A position \in DOMAIN component_values :
              position[1] = 0 =>
                  \A cat \in Range(category_action_filter(game, VisitedTuple, position[2])) :
                      ~IsNaN(values[tuple_to_index(game,
                                 update(game, VisitedTuple, position[2], cat).succ)])
    /\ \A i \in written : ~IsNaN(values[i])

\* C12: a call of update returns a successor anchor only for a category that is not
\* used in the anchor it was given; a used category is rejected at the call.
C12_UsedCategoryRejected ==
    last /= NoMove => ~is_used_by_index(game, last.from, last.cat)

\* C13: in a run from a fresh table, whatever the order the categories and the kept
\* subrolls are enumerated in, every entry of the component map is the value the
\* enumeration in the filters' own order gives, and at the return every slot of the
\* table holds one value fixed by the rule set alone: two runs end with equal tables.
C13_RunsAgree ==
    /\ pc = "component" =>
          \A position \in DOMAIN component_values :
              component_values[position] =
                  PositionValue(game, VisitedTuple, values, component_values, position)
    /\ pc = "done" =>
          \A a \in ThisGameTuples : values[tuple_to_index(game, a)] = ref[a]

\* a run that enumerated backwards from another start is over, for a rule set in
\* which the candidates of the first maximisation differ in value
C13_Witness ==
    /\ pc = "done"
    /\ arg \in [rot : 1..MaxRot, rev : {TRUE}]
    /\ num_categories(game) = 3
    /\ result = ref[<<UNUSED, 0, 0>>]
    /\ \E a \in ThisGameTuples : \E b \in ThisGameTuples :
          /\ a[3] = b[3]
          /\ ref[a] /= ref[b]

\* C14: parse_anchor of the anchor field that position_to_string wrote gives back the
\* anchor: the same Yahtzee flag, upper total and set of used categories.
C14_TextRoundTrip ==
    Len(out) = 2 => out[2] = anchor

\* an anchor play reaches, with a Yahtzee scored, categories used and an upper total
\* of two digits, has been written and read back
C14_Witness ==
    /\ Len(out) = 2
    /\ game.ub_level = TextThresh
    /\ anchor = <<NONZERO, 10, 3 + Pow(2, num_categories(game) - 2)>>
    /\ Len(out[1]) > 12

\* the product of (count + 1) over the faces of a roll
FaceProduct(roll) ==
    LET F[i \in 0..Len(roll)] == IF i = 0 THEN 1 ELSE (roll[i] + 1) * F[i - 1]
    IN  F[Len(roll)]

\* C15: all_subrolls returns every roll of the same sides whose counts the receiver's
\* counts dominate, each once and no other roll; its length is the product of
\* (count + 1) over the faces; the empty roll and the receiver are in it.
C15_AllSubrolls ==
    (Len(out) > 0 /\ out[1] = "all_subrolls") =>
        LET subs == out[2]
        IN  /\ \A i \in 1..Len(subs) : subroll(subs[i], arg)
            /\ \A i \in 1..Len(subs) : \A j \in 1..Len(subs) : subs[i] = subs[j] => i = j
            /\ \A r \in RollsUpTo(size(arg), Len(arg)) : subroll(r, arg) => r \in Range(subs)
            /\ Len(subs) = FaceProduct(arg)
            /\ DiceRoll(<<>>, Len(arg)) \in Range(subs)
            /\ arg \in Range(subs)

\* the subrolls of a roll of five dice showing three different numbers were listed
C15_Witness ==
    /\ Len(out) > 0
    /\ out[1] = "all_subrolls"
    /\ size(arg) = EnvDice
    /\ Cardinality({f \in 1..Len(arg) : arg[f] > 0}) = 3
    /\ Len(out[2]) = 18

\* the runs of consecutive faces showing that cannot be made longer, as <<first, last>>
MaximalRuns(roll) ==
    {r \in (1..Len(roll)) \X (1..Len(roll)) :
        /\ r[1] <= r[2]
        /\ \A f \in r[1]..r[2] : count(roll, f) > 0
        /\ count(roll, r[1] - 1) = 0
        /\ count(roll, r[2] + 1) = 0}

LongestOf(roll) ==
    {r \in MaximalRuns(roll) : \A q \in MaximalRuns(roll) : q[2] - q[1] <= r[2] - r[1]}

\* C17: longest_runs lists every maximal run of consecutive faces of the greatest
\* length in the roll, each once as the list of its faces, in ascending order of the
\* first face, and no shorter run; for the empty roll the list is empty.
C17_LongestRuns ==
    (Len(out) > 0 /\ out[1] = "longest_runs") =>
        LET runs == out[2]
        IN  /\ Len(runs) = Cardinality(LongestOf(arg))
            /\ \A k \in 1..Len(runs) :
                  \E r \in LongestOf(arg) : runs[k] = RangeList(r[1], r[2])
            /\ \A k \in 1..(Len(runs) - 1) : runs[k][1] < runs[k + 1][1]
            /\ size(arg) = 0 => runs = <<>>

\* the roll 1 2 4 4 5 gave the two runs 1 2 and 4 5
C17_Witness ==
    /\ Len(out) > 0
    /\ out[1] = "longest_runs"
    /\ arg = <<1, 1, 0, 2, 1, 0>>
    /\ out[2] = <<(<<1, 2>>), (<<4, 5>>)>>

\* C18: select_all of no number is the empty roll; select_all of every face listed
\* once, with no maximum, has the size of the roll and is equal to the roll.
C18_SelectAll ==
    (Len(out) > 0 /\ out[1] \in {"select_all", "YahtzeeRoll.select_all"}) =>
        /\ out[3] = <<>> => (Len(out[2]) = Len(arg) /\ size(out[2]) = 0)
        /\ (/\ out[3] \in {RangeList(1, Len(arg)), [k \in 1..Len(arg) |-> Len(arg) + 1 - k]}
            /\ out[4] \in {<<>>, <<EnvDice>>})
              => (size(out[2]) = size(arg) /\ out[2] = arg)

\* every face was asked for of a roll of five dice that shows one number three times
C18_Witness ==
    /\ Len(out) > 0
    /\ out[1] = "select_all"
    /\ out[3] = RangeList(1, EnvSides)
    /\ out[4] = <<>>
    /\ size(arg) = EnvDice
    /\ \E f \in 1..Len(arg) : arg[f] = 3
    /\ out[2] = arg

\* every value has at most as many occurrences in a as in b
Dominated(a, b) ==
    \A elt \in 0..(a.maximum + b.maximum) : Multiset_count(a, elt) <= Multiset_count(b, elt)

\* C16: for two Multisets of any capacities, subset is domination value by value; it
\* is reflexive; two Multisets of equal size that are subsets of each other are equal.
C16_SubsetOrder ==
    (IsSolverMultiset(ms[1]) /\ IsSolverMultiset(ms[2])) =>
        /\ Multiset_subset(ms[1], ms[2]) <=> Dominated(ms[1], ms[2])
        /\ Multiset_subset(ms[2], ms[1]) <=> Dominated(ms[2], ms[1])
        /\ Multiset_subset(ms[1], ms[1])
        /\ Multiset_subset(ms[2], ms[2])
        /\ (/\ Multiset_subset(ms[1], ms[2])
            /\ Multiset_subset(ms[2], ms[1])
            /\ ms[1].size = ms[2].size)
              => (Multiset_eq(ms[1], ms[2]) /\ Multiset_eq(ms[2], ms[1]))

\* two Multisets of different capacity hold the same two elements; and the larger
\* one is no subset of the smaller once it holds a value the smaller cannot
C16_Witness ==
    /\ IsSolverMultiset(ms[1])
    /\ IsSolverMultiset(ms[2])
    /\ ms[1].maximum < ms[2].maximum
    /\ ms[1].size = 2
    /\ ms[2].size = 2
    /\ Multiset_subset(ms[1], ms[2])
    /\ Multiset_subset(ms[2], ms[1])
    /\ Multiset_eq(ms[1], ms[2])

\* k calls of add
RECURSIVE AddTimes(_, _, _)
AddTimes(self, num, k) ==
    IF k = 0 THEN self ELSE AddTimes(Multiset_add(self, num).self, num, k - 1)

Occurring(self) == {v \in 0..(self.maximum - 1) : self.freq[v + 1] > 0}

MultisetSound(self) ==
    /\ \A k \in 1..Len(self.freq) : self.freq[k] >= 0
    /\ self.size = SumSeq(self.freq)
    /\ IsSolverMultiset(self) =>
          /\ self.min = (IF Occurring(self) = {} THEN self.maximum
                         ELSE CHOOSE v \in Occurring(self) : \A w \in Occurring(self) : v <= w)
          /\ self.max = (IF Occurring(self) = {} THEN -1
                         ELSE CHOOSE v \in Occurring(self) : \A w \in Occurring(self) : w <= v)

\* whatever the arguments, a call that raises returns the object as it was, and
\* add_many returns what that many calls of add return
CallsSound(self) ==
    /\ \A num \in (-1)..MaxCap :
          LET r == IF IsSolverMultiset(self) THEN Multiset_add(self, num)
                   ELSE EnvMultiset_add(self, num)
          IN  r.raised <=> r.self = self
    /\ LET r == IF IsSolverMultiset(self) THEN Multiset_add_random(self, -1, <<>>)
                ELSE EnvMultiset_add_random(self, -1, <<>>)
       IN  r.raised /\ r.self = self
    /\ IsSolverMultiset(self) =>
          \A num \in (-1)..MaxCap : \A k \in (-1)..MaxElems :
                LET r == Multiset_add_many(self, num, k)
                IN  IF num < 0 \/ num >= self.maximum \/ k < 0
                    THEN r.raised /\ r.self = self
                    ELSE ~r.raised /\ r.self = AddTimes(self, num, k)

\* C20: after any calls of add, add_many and add_random no count is negative, size is
\* the sum of the counts, min_element is the least value that occurs (the capacity when
\* none does) and max_element the greatest (-1 when none does); a call that fails
\* with a range error changes nothing; add_many(v, k) leaves what k calls of add(v) do.
C20_MultisetInvariant ==
    \A i \in 1..Len(ms) : MultisetSound(ms[i]) /\ CallsSound(ms[i])

\* add_many has returned, the Multiset holds three elements of two values, and the
\* Multiset of the other class has been added to
C20_Witness ==
    /\ Len(out) = 2
    /\ out[1] = "add_many"
    /\ ~out[2]
    /\ ms[1].size = 3
    /\ ms[1].min < ms[1].max
    /\ ms[1].freq[ms[1].max + 1] = 2
    /\ ~IsSolverMultiset(ms[2])
    /\ ms[2].size > 0

\* same sides and the same count of every face
SameDice(x, y) == x.dice.maximum = y.dice.maximum /\ x.dice.freq = y.dice.freq

\* C19: two rolls made by constructors and derivations are equal exactly when they
\* have the same sides and the same count of every face; equal rolls have equal hash
\* keys and return equal hashes; a cached hash is the hash of the roll's contents.
C19_EqualityAndHash ==
    /\ \A i \in 1..2 : \A j \in 1..2 :
          /\ DiceRoll_eq(dr[i], dr[j]) <=> SameDice(dr[i], dr[j])
          /\ DiceRoll_eq(dr[i], dr[j]) =>
                /\ HashKey(dr[i]) = HashKey(dr[j])
                /\ DiceRoll_hash(dr[i]).hash = DiceRoll_hash(dr[j]).hash
    /\ \A i \in 1..2 : dr[i].hash # <<>> => dr[i].hash = <<HashKey(dr[i])>>

\* x was hashed while it held one die; y was made from it by reroll, holds two
\* dice and has been hashed as well
C19_Witness ==
    /\ out = <<"__hash__">>
    /\ dr[1].dice.size = 1
    /\ dr[1].hash # <<>>
    /\ dr[2].dice.size = 2
    /\ dr[2].hash # <<>>
    /\ dr[2].dice.maximum = dr[1].dice.maximum
    /\ Multiset_subset(dr[1].dice, dr[2].dice)
    /\ ~DiceRoll_eq(dr[1], dr[2])

\* C21: reroll(t) with t at least the size returns, whatever the dice that fall, a
\* roll of exactly t dice that the receiver is a subroll of, and fails with a smaller
\* t; add_one(face) returns a roll with one more die of that face and the other counts
\* as they were; the receiver has the same sides and counts after either call, failed
\* or not.
C21_RerollAndAddOne ==
    \A i \in 1..2 :
        /\ \A goal \in 0..(DiceCount + 1) :
           \A elts \in Choices(dr[i].dice.maximum, goal - dr[i].dice.size) :
              LET r == DiceRoll_reroll(dr[i], goal, elts)
              IN  /\ SameDice(r.self, dr[i])
                  /\ r.raised <=> goal < dr[i].dice.size
                  /\ ~r.raised =>
                        /\ r.result.dice.size = goal
                        /\ SumSeq(r.result.dice.freq) = goal
                        /\ DiceRoll_subroll(dr[i], r.result)
        /\ \A num \in 0..(dr[i].dice.maximum + 1) :
              LET r == DiceRoll_add_one(dr[i], num)
              IN  /\ SameDice(r.self, dr[i])
                  /\ r.raised <=> (num < 1 \/ num > dr[i].dice.maximum)
                  /\ ~r.raised =>
                        /\ r.result.dice.maximum = dr[i].dice.maximum
                        /\ r.result.dice.size = dr[i].dice.size + 1
                        /\ \A f \in 1..dr[i].dice.maximum :
                              r.result.dice.freq[f] =
                                  dr[i].dice.freq[f] + (IF f = num THEN 1 ELSE 0)

\* reroll has given y two dice from the one die of x, and x still holds its one die
C21_Witness ==
    /\ out = <<"reroll">>
    /\ dr[1].dice.size = 1
    /\ dr[2].dice.size = 2
    /\ DiceRoll_subroll(dr[1], dr[2])
    /\ dr[2].dice.min < dr[2].dice.max

\* C25: for every roll r, every list of faces of r (a face may be listed twice) and
\* every maximum m, select_all(faces, m) is a subroll of r that holds min(m, r.count(f))
\* dice of each listed face f (r.count(f) when m is None) and none of the other faces;
\* select_one(faces) is a subroll of r with at most one die of each listed face.
C25_SelectionsAreSubrolls ==
    (Len(out) > 0 /\ out[1] \in {"select_all", "select_one"} /\ ~OutOfRange(arg, out[3])) =>
        /\ subroll(out[2], arg)
        /\ \A f \in 1..Len(arg) :
              LET listed == \E k \in 1..Len(out[3]) : out[3][k] = f
                  c == count(arg, f)
              IN  IF out[1] = "select_one" THEN count(out[2], f) <= 1
                  ELSE IF ~listed THEN count(out[2], f) = 0
                  ELSE IF out[4] = <<>> THEN count(out[2], f) = c
                  ELSE count(out[2], f) = (IF out[4][1] < c THEN out[4][1] ELSE c)

\* the faces a roll shows
Showing(roll) == {f \in 1..Len(roll) : roll[f] > 0}

\* C24: for a roll of any size, is_full_house is true exactly when the dice show two
\* distinct faces and each of the two at least twice; it is false for the empty roll
\* and for a roll of one face.
C24_FullHouse ==
    (Len(out) > 0 /\ out[1] = "is_full_house") =>
        /\ out[2][1] <=> (/\ Cardinality(Showing(arg)) = 2
                          /\ \A f \in Showing(arg) : arg[f] >= 2)
        /\ Cardinality(Showing(arg)) <= 1 => ~out[2][1]

\* two pairs on four dice are a full house
C24_Witness ==
    /\ Len(out) > 0
    /\ out[1] = "is_full_house"
    /\ out[2][1]
    /\ size(arg) = 4

\* C23: whatever the threshold of the rule set, when solve has returned from a fresh
\* table every slot 0..maximum_index() holds a value, none is left unsolved, and the
\* value returned is the slot of the initial anchor (unused, 0, 0).
C23_TableComplete ==
    (pc = "done" /\ seeded = {}) =>
        /\ \A i \in 0..maximum_index(game) : ~IsNaN(values[i])
        /\ result = values[tuple_to_index(game, <<UNUSED, 0, 0>>)]

\* C22: make_move with rerolls > 0 and a keep that is not a subroll of the roll raises
\* and leaves the roll, the rerolls and the scoresheet of the game as they were;
\* play_solitaire raises on such a keep before it rerolls
C22_KeepMustBeSubroll ==
    \A i \in 1..Len(games) :
       games[i].rerolls > 0 =>
          \A keep \in Keeps(games[i].roll) :
             ~YahtzeeRoll_subroll(keep, games[i].roll) =>
                \A elts \in Outcomes(EnvDice - size(keep), 0) :
                   /\ YahtzeeGame_make_move(games[i], <<"roll", keep>>, elts)
                         = [raised |-> TRUE, self |-> games[i]]
                   /\ play_solitaire_step(games[i], <<"roll", keep>>, elts)
                         = [raised |-> TRUE, self |-> games[i]]

C22_Witness ==
    /\ Len(out) = 3
    /\ out[1] = "make_move"
    /\ out[2]
    /\ out[3][1] = "roll"
    /\ games[1].rerolls = 1
    /\ ~YahtzeeRoll_subroll(out[3][2], games[1].roll)

\* C26: mark and score raise exactly when the category is outside 0..12 or marked
\* already, and a mark that raises leaves the scores, the four totals and the turn
\* count alone; a mark that succeeds sets the score of that category alone and adds
\* one to the turn count
C26_MarkAndScore ==
    \A i \in 1..Len(games) :
       \A cat \in -1..NumCategories :
          LET card == games[i].sheet
              bad == IF cat \in 0..12 THEN card.scores[cat + 1] # NoScore ELSE TRUE
              m == Sheet_mark(card, cat, games[i].roll)
              points == Sheet_score(card, cat, games[i].roll)
          IN  /\ m.raised = bad
              /\ points.raised = bad
              /\ bad => m.self = card
              /\ ~bad => /\ m.self.turns = card.turns + 1
                          /\ points.result # NoScore
                          /\ m.self.scores = [card.scores EXCEPT ![cat + 1] = points.result]

C26_Witness ==
    /\ Len(out) = 3
    /\ out[2]
    /\ out[3] = <<"cat", 0>>
    /\ games[1].rerolls = 0
    /\ games[1].sheet.turns > 1
    /\ games[1].sheet.scores[1] # NoScore

\* C27: a YahtzeeGame is over after exactly 39 calls of make_move with legal actions
\* and not before; its roll always has five dice, its rerolls go 2, 1, 0 in every
\* turn, and the mark that ends the game leaves the roll and the rerolls alone
C27_ThirtyNineMoves ==
    /\ [](arg = "make_move" =>
            \A i \in 1..Len(games) :
               /\ size(games[i].roll) = 5
               /\ games[i].rerolls \in {0, 1, 2}
               /\ Sheet_game_over(games[i].sheet) <=> moves = 39
               /\ moves = 3 * games[i].sheet.turns
                            + (IF Sheet_game_over(games[i].sheet) THEN 0
                               ELSE 2 - games[i].rerolls))
    /\ [][arg = "make_move" /\ moves' # moves =>
            /\ moves' = moves + 1
            /\ Legal(games[1], out'[3])
            /\ IF games[1].rerolls > 0
               THEN games'[1].rerolls = games[1].rerolls - 1
               ELSE IF Sheet_game_over(games'[1].sheet)
               THEN games'[1].rerolls = 0 /\ games'[1].roll = games[1].roll
               ELSE games'[1].rerolls = 2]_vars

C27_Witness ==
    /\ arg = "make_move"
    /\ moves = 39
    /\ Sheet_game_over(games[1].sheet)
    /\ Len(out) = 3
    /\ ~out[2]

C29_SameScores ==
    arg = "turn" =>
       \A roll \in CompleteRolls :
          \A cat \in Range(Unmarked(games[1].sheet)) :
             Sheet_grand_total(Sheet_mark(games[1].sheet, cat, roll).self)
                - Sheet_grand_total(games[1].sheet)
             = update(game, anchor, roll, cat).score

\* the first and the last of the categories not marked
EndsOf(card) ==
    IF Len(Unmarked(card)) = 0 THEN {}
    ELSE {Unmarked(card)[1], Unmarked(card)[Len(Unmarked(card))]}

====
